---- MODULE Spec2Model ----
(***************************************************************************)
(* A model of the avance progress-bar engine (crates/avance/src/bar.rs):   *)
(* the process-wide registry of rows (POSITIONS, NEXTID, NROWS), the       *)
(* per-bar State (n, cached, total, last, config.interval), the handles    *)
(* that share one State, and the part of the terminal that lies at and     *)
(* below the cursor anchor.                                                *)
(*                                                                         *)
(* Every public operation of AvanceBar runs with the bar's mutex held, and *)
(* every access to POSITIONS with the registry mutex held; an action below *)
(* is one such operation.  Time is counted in ticks of the clock; a bar    *)
(* stores, instead of the instant `last`, the ticks elapsed since it.      *)
(***************************************************************************)
EXTENDS Integers, Sequences, FiniteSets, TLC

VARIABLES
    isTty,      \* stderr().is_tty()
    termRows,   \* terminal_size().1
    NROWS,      \* static NROWS
    NEXTID,     \* static NEXTID
    positions,  \* static POSITIONS: HashMap<ID, Pos>
    bars,       \* id -> State, for every State not yet dropped
    handles,    \* id -> number of AvanceBar handles on the State (Arc count)
    screen,     \* row (offset from the anchor) -> what the terminal shows
    above,      \* the lines the anchor has moved past, oldest first
    sum,        \* history: id -> sum of the arguments of update so far
    log,        \* history: id -> what the closes of the bar have done
    retotal,    \* history: id -> set_total was called after an update
    draws,      \* history: id -> the ticks since the last draws that wrote
    ttyRun,     \* history: id -> the counters the same calls give on a TTY
    peak,       \* history: id -> the largest n the bar has had
    capFirst,   \* history: NROWS was set before any bar was built, once
    sinkOk,     \* stderr takes the writes (FALSE: every write fails)
    closing,    \* id -> how far the close() that holds the bar's mutex is
    poisoned,   \* the bars whose mutex is poisoned
    iters,      \* id -> the iterator adaptor that owns a handle of the bar
    order,      \* history: the bars in the order their closes returned
    panics,     \* history: the panics raised
    call,       \* the arguments and the result of a formatting function
    threads     \* thread -> the operation it runs, its step, the locks held

vars == <<isTty, termRows, NROWS, NEXTID, positions, bars, handles, screen,
          above, sum, log, retotal, draws, ttyRun, peak, capFirst, sinkOk,
          closing, poisoned, iters, order, panics, call, threads>>

Min2(a, b) == IF a <= b THEN a ELSE b
Max2(a, b) == IF a >= b THEN a ELSE b
(* The greatest element of a set of integers (found as the least of the   *)
(* negated elements, which is the first one examined).                     *)
MaxOf(S) ==
    LET N == {0 - x : x \in S}
    IN  0 - (CHOOSE m \in N : \A x \in N : m <= x)

-----------------------------------------------------------------------------
(* Bounds of the model.                                                    *)

MaxBars == 3
MaxSum == 3
MaxHandles == 2

(* Config::new: interval = 1/15 s, which is one tick of the model's clock. *)
DefaultInterval == 1

TermRowsSet == {3}
CountRowsSet == {1, 2, 3}
Intervals == {0, 1, 2}
MaxElapsed == MaxOf(Intervals)

-----------------------------------------------------------------------------
(* Option<T>                                                               *)

None == <<>>
Some(v) == <<v>>
Unwrap(o) == o[1]


-----------------------------------------------------------------------------
(* Terminal cells.                                                         *)

Blank == [kind |-> "blank"]
Ellipsis == [kind |-> "ellipsis"]
Line(id) == [kind |-> "bar", id |-> id]

-----------------------------------------------------------------------------
(* The registry.                                                           *)

(* fn nrows(): the rows the bars may use.                                  *)
nrows == IF NROWS # 0 THEN Min2(NROWS, termRows) ELSE termRows

(* fn set_max_progress_bars: the value stored in NROWS (u16 arithmetic).   *)
max_progress_bars(nbars) == Max2((nbars + 1) % 65536, 2)

(* fn next_free_pos: the row of a new bar.                                 *)
next_pos(pos) ==
    IF DOMAIN pos = {} THEN 0
    ELSE (MaxOf({pos[i] : i \in DOMAIN pos}) + 1) % 65536

(* fn next_free_pos: the registry with the new bar inserted.               *)
next_free_pos(pos, id) ==
    [i \in DOMAIN pos \cup {id} |-> IF i = id THEN next_pos(pos) ELSE pos[i]]

(* Variants of reposition, to show what the properties below rest on: one  *)
(* that leaves the rows of the bars below as they are, one that leaves the *)
(* closed bar in the registry.                                             *)
reposition_no_shift(pos, id) == [i \in DOMAIN pos \ {id} |-> pos[i]]

reposition_keep(pos, id) == pos

(* fn reposition: remove the bar, move up the bars below it.               *)
reposition(pos, id) ==
    LET closed_pos == pos[id]
    IN  [i \in DOMAIN pos \ {id} |->
            IF pos[i] > closed_pos THEN pos[i] - 1 ELSE pos[i]]

(* fn State::try_get_pos                                                   *)
try_get_pos(pos, id) == IF id \in DOMAIN pos THEN Some(pos[id]) ELSE None

(* fn State::drawable                                                      *)
drawable(tty, pos, id) == tty /\ try_get_pos(pos, id) # None

(* fn is_finished                                                          *)
is_finished(pos) == DOMAIN pos = {}

-----------------------------------------------------------------------------
(* The per-bar State.                                                      *)

(* fn State::new, Config::new                                              *)
new_state(total) ==
    [n |-> 0, cached |-> 0, total |-> total, elapsed |-> 0,
     interval |-> DefaultInterval, postfix |-> None, width |-> None]

(* A variant of Clone for State that copies the counters as well.          *)
clone_state_whole(st) == [st EXCEPT !.elapsed = 0]

(* impl Clone for State: a new State with the total and the config.        *)
clone_state(st) ==
    [new_state(st.total) EXCEPT
        !.interval = st.interval, !.postfix = st.postfix, !.width = st.width]

(* fn AvanceBar::set_interval: only sign-positive intervals are taken.     *)
checked_interval(x) == IF x >= 0 THEN x ELSE DefaultInterval

(* A variant of force_update that forgets the steps already counted.       *)
force_update_restart(st) ==
    [st EXCEPT
        !.n = IF st.total # None
              THEN Min2(Unwrap(st.total), st.cached)
              ELSE st.cached,
        !.cached = 0,
        !.elapsed = 0]

(* fn State::force_update                                                  *)
force_update(st) ==
    [st EXCEPT
        !.n = IF st.total # None
              THEN Min2(Unwrap(st.total), st.n + st.cached)
              ELSE st.n + st.cached,
        !.cached = 0,
        !.elapsed = 0]

(* Variants of the second half of update: one that drops the cached steps  *)
(* instead of adding them to n, one that does not look at the clock.       *)
interval_update_lossy(st) ==
    IF st.elapsed >= st.interval
    THEN [st |-> [st EXCEPT !.cached = 0, !.elapsed = 0],
          drew |-> <<"interval">>]
    ELSE [st |-> st, drew |-> <<>>]

interval_update_unguarded(st) ==
    [st |-> [st EXCEPT !.n = st.n + st.cached, !.cached = 0, !.elapsed = 0],
     drew |-> <<"interval">>]

(* fn State::update, second half: the redraw interval has elapsed.         *)
interval_update(st) ==
    IF st.elapsed >= st.interval
    THEN [st |-> [st EXCEPT !.n = st.n + st.cached, !.cached = 0, !.elapsed = 0],
          drew |-> <<"interval">>]
    ELSE [st |-> st, drew |-> <<>>]

(* Variants of update: one that waits for the interval even when the total *)
(* is reached, one that counts only when the bar can be drawn.             *)
State_update_lazy(st, k, can_draw) ==
    LET s1 == [st EXCEPT !.cached = st.cached + k]
        r3 == interval_update(s1)
    IN  IF s1.total # None /\ s1.n >= Unwrap(s1.total)
        THEN [st |-> s1, drew |-> <<>>]
        ELSE [st |-> r3.st, drew |-> IF can_draw THEN r3.drew ELSE <<>>]

State_update_tty_only(st, k, can_draw) ==
    LET s1 == [st EXCEPT !.cached = st.cached + k]
        reached == s1.total # None /\ s1.n + s1.cached >= Unwrap(s1.total)
        s2 == IF reached THEN force_update(s1) ELSE s1
        d2 == IF reached THEN <<"complete">> ELSE <<>>
        r3 == interval_update(s2)
    IN  IF ~can_draw THEN [st |-> st, drew |-> <<>>]
        ELSE IF s1.total # None /\ s1.n >= Unwrap(s1.total)
        THEN [st |-> s1, drew |-> <<>>]
        ELSE [st |-> r3.st, drew |-> d2 \o r3.drew]

(* fn State::update: the new State and the draws it asks for, in order.    *)
(* can_draw is what drawable() answers; the results of draw are dropped.   *)
State_update(st, k, can_draw) ==
    LET s1 == [st EXCEPT !.cached = st.cached + k]
        reached == s1.total # None /\ s1.n + s1.cached >= Unwrap(s1.total)
        s2 == IF reached THEN force_update(s1) ELSE s1
        d2 == IF reached THEN <<"complete">> ELSE <<>>
        r3 == interval_update(s2)
    IN  IF s1.total # None /\ s1.n >= Unwrap(s1.total)
        THEN [st |-> s1, drew |-> <<>>]
        ELSE [st |-> r3.st,
              drew |-> IF can_draw THEN d2 \o r3.drew ELSE <<>>]

(* fn State::close, the counters: no update when there is nothing new.     *)
close_state(st) ==
    IF st.total # None /\ Unwrap(st.total) = st.n THEN st ELSE force_update(st)

-----------------------------------------------------------------------------
(* The terminal.  pos is the registry the operation reads, at is the row   *)
(* the caller gives to draw (None: the row of the registry).               *)

(* fn State::draw, the row written: none when the row is beyond nrows.     *)
draw_row(pos, id, at) ==
    LET p == IF at # None THEN Unwrap(at) ELSE Unwrap(try_get_pos(pos, id))
    IN  IF p >= nrows THEN None ELSE Some(p)

(* fn State::draw, the message: the ellipsis on the last row.              *)
draw_msg(id, p) == IF p = nrows - 1 THEN Ellipsis ELSE Line(id)

(* fn State::draw; a write that fails (queue or flush returns Err) leaves   *)
(* the terminal as it is.                                                  *)
draw(scr, pos, id, at) ==
    IF ~drawable(isTty, pos, id) THEN scr
    ELSE LET r == draw_row(pos, id, at)
         IN  IF r = None \/ ~sinkOk THEN scr
             ELSE [scr EXCEPT ![Unwrap(r)] = draw_msg(id, Unwrap(r))]

(* fn State::clear                                                         *)
clear(scr, pos, id) ==
    IF ~drawable(isTty, pos, id) THEN scr
    ELSE LET r == draw_row(pos, id, None)
         IN  IF r = None \/ ~sinkOk THEN scr
             ELSE [scr EXCEPT ![Unwrap(r)] = Blank]

(* Print('\n') at the anchor: the anchor moves one row down.               *)
newline(scr) ==
    [r \in DOMAIN scr |-> IF r + 1 \in DOMAIN scr THEN scr[r + 1] ELSE Blank]

(* A draw of the bar writes on the terminal.                               *)
writes(pos, id, at) ==
    drawable(isTty, pos, id) /\ draw_row(pos, id, at) # None /\ sinkOk

-----------------------------------------------------------------------------
(* History of the draws of a bar: the ticks since its last draw that wrote *)
(* (since), and since its last draw that wrote and was made by update or   *)
(* by the constructor (sinceUpd); None before the first such draw.         *)

UpdateDraws == {"refresh", "complete", "interval"}

no_draws == [since |-> None, sinceUpd |-> None]

note_draw(d, kind) ==
    [since |-> Some(0),
     sinceUpd |-> IF kind \in UpdateDraws THEN Some(0) ELSE d.sinceUpd]

RECURSIVE note_all(_, _)
note_all(d, kinds) ==
    IF kinds = <<>> THEN d
    ELSE note_all(note_draw(d, Head(kinds)), Tail(kinds))

later(t) == IF t = None THEN None ELSE Some(Min2(Unwrap(t) + 1, MaxElapsed))

(* History of the closes of a bar: close() was called on a handle, and how  *)
(* many final draws wrote, newlines were printed and repositions were run  *)
(* for the bar (counted up to 2).                                          *)
no_log == [closed |-> FALSE, finals |-> 0, newlines |-> 0, repositions |-> 0]

note_close(l, explicit, can, w, nl) ==
    [closed |-> l.closed \/ explicit,
     finals |-> IF w THEN Min2(l.finals + 1, 2) ELSE l.finals,
     newlines |-> IF nl THEN Min2(l.newlines + 1, 2) ELSE l.newlines,
     repositions |-> IF can THEN Min2(l.repositions + 1, 2) ELSE l.repositions]

(* The panics: of the addition in set_max_progress_bars, of a caller's     *)
(* to_string under the mutex of a bar, of lock().unwrap() on a poisoned    *)
(* mutex.                                                                  *)
CapPanic == [at |-> "set_max_progress_bars", bar |-> None]
UserPanic(id) == [at |-> "to_string", bar |-> Some(id)]
LockPanic(id) == [at |-> "lock", bar |-> Some(id)]

Put(f, k, v) == [i \in DOMAIN f \cup {k} |-> IF i = k THEN v ELSE f[i]]
Del(f, k) == [i \in DOMAIN f \ {k} |-> f[i]]
Cell(scr, r) == IF r \in DOMAIN scr THEN scr[r] ELSE Blank

-----------------------------------------------------------------------------
(* Initial state: no bar has been built, nothing is on the terminal.       *)

Idle(rows) ==
    /\ isTty \in BOOLEAN
    /\ termRows \in rows
    /\ NROWS = 0
    /\ NEXTID = 0
    /\ positions = <<>>
    /\ bars = <<>>
    /\ handles = <<>>
    /\ screen = [r \in 0 .. termRows - 1 |-> Blank]
    /\ above = <<>>
    /\ sum = <<>>
    /\ log = <<>>
    /\ retotal = <<>>
    /\ draws = <<>>
    /\ ttyRun = <<>>
    /\ peak = <<>>
    /\ capFirst = FALSE
    /\ sinkOk = TRUE
    /\ closing = <<>>
    /\ poisoned = {}
    /\ iters = <<>>
    /\ order = <<>>
    /\ panics = {}
    /\ threads = <<>>

(* No formatting function is under examination.                            *)
Start(rows) == Idle(rows) /\ call = <<>>

Init == Start(TermRowsSet)

(* The bars whose State exists: some handle is still held.                 *)
Live == DOMAIN bars

-----------------------------------------------------------------------------
(* Constructors.                                                           *)

(* State::new (next_free_pos) behind a new Arc, then refresh() or not.     *)
Build(st, refresh) ==
    LET id == NEXTID
        pos1 == next_free_pos(positions, id)
        w == refresh /\ writes(pos1, id, None)
    IN  /\ NEXTID' = id + 1
        /\ positions' = pos1
        /\ bars' = Put(bars, id, st)
        /\ handles' = Put(handles, id, 1)
        /\ screen' = IF refresh THEN draw(screen, pos1, id, None) ELSE screen
        /\ sum' = Put(sum, id, 0)
        /\ log' = Put(log, id, no_log)
        /\ retotal' = Put(retotal, id, FALSE)
        /\ draws' = Put(draws, id,
                        IF w THEN note_draw(no_draws, "refresh")
                        ELSE no_draws)
        /\ ttyRun' = Put(ttyRun, id, st)
        /\ peak' = Put(peak, id, st.n)
        /\ UNCHANGED <<call, threads, isTty, termRows, capFirst, NROWS, above, sinkOk, closing,
                       poisoned, order, panics>>

(* AvanceBar::new(total)                                                   *)
New(total) == Build(new_state(Some(total)), TRUE) /\ UNCHANGED iters

(* AvanceBar::with_hint(size_hint), used by AvanceIterator::avance         *)
WithHint(hint) == Build(new_state(hint), FALSE) /\ UNCHANGED iters

(* AvanceBar::with_config_of(pb)                                           *)
WithConfigOf(pb) ==
    /\ pb \in Live
    /\ Build(clone_state(bars[pb]), TRUE)
    /\ UNCHANGED iters

-----------------------------------------------------------------------------
(* Operations on a bar through one of its handles.                         *)

(* AvanceBar::update(k) on the State and the terminal                      *)
Inc(id, k) ==
    LET r == State_update(bars[id], k, drawable(isTty, positions, id))
        kinds == IF writes(positions, id, None) THEN r.drew ELSE <<>>
    IN  /\ id \in Live
        /\ bars' = [bars EXCEPT ![id] = r.st]
        /\ screen' = IF r.drew # <<>> THEN draw(screen, positions, id, None)
                     ELSE screen
        /\ sum' = [sum EXCEPT ![id] = @ + k]
        /\ draws' = [draws EXCEPT ![id] = note_all(@, kinds)]
        /\ ttyRun' = [ttyRun EXCEPT ![id] = State_update(@, k, TRUE).st]
        /\ peak' = [peak EXCEPT ![id] = Max2(@, r.st.n)]
        /\ UNCHANGED <<call, threads, isTty, termRows, capFirst, NROWS, NEXTID, positions,
                       above, log, retotal, sinkOk, closing, poisoned, order,
                       panics>>

(* AvanceBar::update(k), called on a handle                                *)
Update(id, k) == Inc(id, k) /\ UNCHANGED <<iters, handles>>

(* A variant of State::close that returns the error of the final draw     *)
(* (self.draw(Some(0))?) instead of dropping it.                           *)
State_close_checked(id, explicit) ==
    LET can == drawable(isTty, positions, id)
        w == writes(positions, id, Some(0))
        scr1 == draw(screen, positions, id, Some(0))
        moved == can /\ sinkOk
    IN  /\ positions' = IF moved THEN reposition(positions, id) ELSE positions
        /\ screen' = IF moved THEN newline(scr1) ELSE screen
        /\ above' = IF moved THEN Append(above, Cell(scr1, 0)) ELSE above
        /\ order' = IF moved THEN Append(order, id) ELSE order
        /\ log' = [log EXCEPT ![id] = note_close(@, explicit, moved, w, moved)]

(* State::close on the registry and the terminal: the final draw at row 0, *)
(* reposition, the newline (not printed when the write fails).             *)
State_close(id, explicit) ==
    LET can == drawable(isTty, positions, id)
        w == writes(positions, id, Some(0))
        scr1 == draw(screen, positions, id, Some(0))
        nl == can /\ sinkOk
    IN  /\ positions' = IF can THEN reposition(positions, id) ELSE positions
        /\ screen' = IF nl THEN newline(scr1) ELSE screen
        /\ above' = IF nl THEN Append(above, Cell(scr1, 0)) ELSE above
        /\ order' = IF can THEN Append(order, id) ELSE order
        /\ log' = [log EXCEPT ![id] = note_close(@, explicit, can, w, nl)]

(* AvanceBar::close                                                        *)
Close(id) ==
    /\ id \in Live
    /\ State_close(id, TRUE)
    /\ bars' = IF drawable(isTty, positions, id)
               THEN [bars EXCEPT ![id] = close_state(@)] ELSE bars
    /\ ttyRun' = IF drawable(isTty, positions, id)
                 THEN [ttyRun EXCEPT ![id] = close_state(@)] ELSE ttyRun
    /\ draws' = IF writes(positions, id, Some(0))
                THEN [draws EXCEPT ![id] = note_draw(@, "close")]
                ELSE draws
    /\ peak' = [peak EXCEPT ![id] = Max2(@, bars'[id].n)]
    /\ UNCHANGED <<call, threads, isTty, termRows, capFirst, NROWS, NEXTID, handles, sum, retotal,
                   sinkOk, closing, poisoned, iters, panics>>

(* #[derive(Clone)] for AvanceBar: one more handle on the same State.      *)
CloneHandle(id) ==
    /\ id \in Live
    /\ handles[id] < MaxHandles
    /\ handles' = [handles EXCEPT ![id] = @ + 1]
    /\ UNCHANGED <<call, threads, isTty, termRows, capFirst, NROWS, NEXTID, positions, bars, screen,
                   above, sum, log, retotal, draws, ttyRun, peak, sinkOk,
                   closing, poisoned, iters, order, panics>>

(* A variant of the drop of a handle that closes the bar at every drop.    *)
Release_eager(id) ==
    /\ id \in Live
    /\ State_close(id, FALSE)
    /\ IF handles[id] > 1
       THEN /\ handles' = [handles EXCEPT ![id] = @ - 1]
            /\ UNCHANGED <<bars, sum, retotal, draws, ttyRun, peak, poisoned>>
       ELSE /\ handles' = Del(handles, id)
            /\ bars' = Del(bars, id)
            /\ sum' = Del(sum, id)
            /\ retotal' = Del(retotal, id)
            /\ draws' = Del(draws, id)
            /\ ttyRun' = Del(ttyRun, id)
            /\ peak' = Del(peak, id)
            /\ poisoned' = poisoned \ {id}
    /\ UNCHANGED <<call, threads, isTty, termRows, capFirst, NROWS, NEXTID, sinkOk, closing,
                   panics>>

(* A handle is dropped; the State is dropped with the last one: Drop for   *)
(* State closes the bar, and the State is gone.                            *)
Release(id) ==
    /\ id \in Live
    /\ IF handles[id] > 1
       THEN /\ handles' = [handles EXCEPT ![id] = @ - 1]
            /\ UNCHANGED <<positions, bars, screen, above, sum, log, retotal,
                           draws, ttyRun, peak, poisoned, order>>
       ELSE /\ State_close(id, FALSE)
            /\ handles' = Del(handles, id)
            /\ bars' = Del(bars, id)
            /\ sum' = Del(sum, id)
            /\ retotal' = Del(retotal, id)
            /\ draws' = Del(draws, id)
            /\ ttyRun' = Del(ttyRun, id)
            /\ peak' = Del(peak, id)
            /\ poisoned' = poisoned \ {id}
    /\ UNCHANGED <<call, threads, isTty, termRows, capFirst, NROWS, NEXTID, sinkOk, closing,
                   panics>>

(* A handle held by the program is dropped.                                *)
DropHandle(id) == Release(id) /\ UNCHANGED iters

(* A setter that changes the State and draws: st1 is the new State.        *)
Setter(id, st1, clears) ==
    LET w == writes(positions, id, None)
    IN  /\ id \in Live
        /\ bars' = [bars EXCEPT ![id] = st1]
        /\ screen' = draw(IF clears THEN clear(screen, positions, id)
                          ELSE screen, positions, id, None)
        /\ draws' = IF w THEN [draws EXCEPT ![id] =
                                  note_draw(@, "setter")]
                    ELSE draws
        /\ UNCHANGED <<call, threads, isTty, termRows, capFirst, NROWS, NEXTID, positions, handles,
                       above, sum, log, peak, sinkOk, closing, poisoned, iters,
                       order, panics>>

(* AvanceBar::set_total                                                    *)
SetTotal(id, total) ==
    /\ Setter(id, [bars[id] EXCEPT !.total = Some(total)], FALSE)
    /\ retotal' = [retotal EXCEPT ![id] = @ \/ sum[id] > 0]
    /\ ttyRun' = [ttyRun EXCEPT ![id].total = Some(total)]

(* AvanceBar::set_postfix (set_style, set_style_str, set_desc are alike)   *)
SetPostfix(id, postfix) ==
    /\ Setter(id, [bars[id] EXCEPT !.postfix = Some(postfix)], FALSE)
    /\ ttyRun' = [ttyRun EXCEPT ![id].postfix = Some(postfix)]
    /\ UNCHANGED retotal

(* AvanceBar::set_width                                                    *)
SetWidth(id, width) ==
    /\ Setter(id, [bars[id] EXCEPT !.width = Some(width)], TRUE)
    /\ ttyRun' = [ttyRun EXCEPT ![id].width = Some(width)]
    /\ UNCHANGED retotal

(* AvanceBar::set_interval                                                 *)
SetInterval(id, x) ==
    /\ id \in Live
    /\ bars' = [bars EXCEPT ![id].interval = checked_interval(x)]
    /\ ttyRun' = [ttyRun EXCEPT ![id].interval = checked_interval(x)]
    /\ UNCHANGED <<call, threads, isTty, termRows, capFirst, NROWS, NEXTID, positions, handles, screen,
                   above, sum, log, retotal, draws, peak, sinkOk, closing,
                   poisoned, iters, order, panics>>

(* set_max_progress_bars(nbars).  nbars + 1 is a u16 addition: when it     *)
(* overflows, a build with overflow checks panics before the store, and a  *)
(* build without them stores the wrapped value.                            *)
SetMaxProgressBars(nbars) ==
    /\ \/ /\ NROWS' = max_progress_bars(nbars)
          /\ capFirst' = (NEXTID = 0 /\ NROWS = 0)
          /\ UNCHANGED panics
       \/ /\ nbars + 1 > 65535
          /\ panics' = panics \cup {CapPanic}
          /\ UNCHANGED <<NROWS, capFirst>>
    /\ UNCHANGED <<call, threads, isTty, termRows, NEXTID, positions, bars, handles, screen,
                   above, sum, log, retotal, draws, ttyRun, peak, sinkOk,
                   closing, poisoned, iters, order>>

(* The clock advances by one tick.                                         *)
tick(st) == [st EXCEPT !.elapsed = Min2(@ + 1, MaxElapsed)]

Tick ==
    /\ bars' = [id \in DOMAIN bars |-> tick(bars[id])]
    /\ ttyRun' = [id \in DOMAIN ttyRun |-> tick(ttyRun[id])]
    /\ draws' = [id \in DOMAIN draws |->
                    [draws[id] EXCEPT !.since = later(@), !.sinceUpd = later(@)]]
    /\ UNCHANGED <<call, threads, isTty, termRows, capFirst, NROWS, NEXTID, positions, handles, screen,
                   above, sum, log, retotal, peak, sinkOk, closing, poisoned,
                   iters, order, panics>>

(* The writes to stderr start to fail (queue or flush returns Err), or     *)
(* succeed again.                                                          *)
SinkFlip ==
    /\ sinkOk' = ~sinkOk
    /\ UNCHANGED <<call, threads, isTty, termRows, NROWS, NEXTID, positions, bars, handles,
                   screen, above, sum, log, retotal, draws, ttyRun, peak,
                   capFirst, closing, poisoned, iters, order, panics>>

(* AvanceBar::set_postfix(postfix) where postfix.to_string() panics: the   *)
(* thread holds the mutex of the bar, the guard is dropped by the unwind   *)
(* and the mutex is poisoned; the State is as it was.                      *)
SetPostfixPanics(id) ==
    /\ id \in Live \ poisoned
    /\ poisoned' = poisoned \cup {id}
    /\ panics' = panics \cup {UserPanic(id)}
    /\ UNCHANGED <<call, threads, isTty, termRows, NROWS, NEXTID, positions, bars, handles,
                   screen, above, sum, log, retotal, draws, ttyRun, peak,
                   capFirst, sinkOk, closing, iters, order>>

(* Any operation on a handle of a bar whose mutex is poisoned:             *)
(* self.state.lock().unwrap() panics on the PoisonError.                   *)
LockPanics(id) ==
    /\ id \in Live \cap poisoned
    /\ panics' = panics \cup {LockPanic(id)}
    /\ UNCHANGED <<call, threads, isTty, termRows, NROWS, NEXTID, positions, bars, handles,
                   screen, above, sum, log, retotal, draws, ttyRun, peak,
                   capFirst, sinkOk, closing, poisoned, iters, order>>

-----------------------------------------------------------------------------
(* Text.  A string is the sequence of its characters; len() counts them    *)
(* (the strings here are ASCII but for the glyphs of the bar, which are    *)
(* never part of l_bar or r_bar).                                          *)

Repeat(c, k) == [i \in 1 .. k |-> c]

Text(str) ==
    CASE str = "it [" -> <<"i", "t", " ", "[">>
      [] str = "it/s]" -> <<"i", "t", "/", "s", "]">>
      [] str = "it/s" -> <<"i", "t", "/", "s">>
      [] str = "NaN" -> <<"N", "a", "N">>
      [] str = "inf" -> <<"i", "n", "f">>
      [] str = "%|" -> <<"%", "|">>
      [] str = "| " -> <<"|", " ">>
      [] str = " [" -> <<" ", "[">>
      [] str = ", " -> <<",", " ">>
      [] str = "... (more hidden) ..." ->
            <<".", ".", ".", " ", "(", "m", "o", "r", "e", " ", "h", "i", "d",
              "d", "e", "n", ")", " ", ".", ".", ".">>

DigitChar(d) == <<"0", "1", "2", "3", "4", "5", "6", "7", "8", "9">>[d + 1]

(* format!("{}", n) of an unsigned integer                                 *)
RECURSIVE Decimal(_)
Decimal(n) ==
    IF n < 10 THEN <<DigitChar(n)>>
    ELSE Append(Decimal(n \div 10), DigitChar(n % 10))

(* format!("{:02}", n) and format!("{:>3}", n)                             *)
Decimal02(n) == IF n < 10 THEN <<"0">> \o Decimal(n) ELSE Decimal(n)

Decimal3(n) == Repeat(" ", Max2(3 - Len(Decimal(n)), 0)) \o Decimal(n)

(* format!("{:.02}", a / b) of the f64 quotient of two integers: NaN for   *)
(* 0/0, inf for a/0, else the quotient rounded to hundredths (half to      *)
(* even).                                                                  *)
Hundredths(a, b) ==
    LET q == (100 * a) \div b
        r == (100 * a) % b
    IN  IF 2 * r > b \/ (2 * r = b /\ q % 2 = 1) THEN q + 1 ELSE q

Quotient02(a, b) ==
    IF b = 0 THEN (IF a = 0 THEN Text("NaN") ELSE Text("inf"))
    ELSE LET h == Hundredths(a, b)
         IN  Decimal(h \div 100) \o <<".">> \o Decimal02(h % 100)

(* impl Display for State: the closure ftime                               *)
ftime(seconds) ==
    LET m == (seconds \div 60) % 60
        sec == seconds % 60
        h == seconds \div 3600
    IN  IF h = 0 THEN Decimal02(m) \o <<":">> \o Decimal02(sec)
        ELSE Decimal02(h) \o <<":">> \o Decimal02(m) \o <<":">> \o Decimal02(sec)

-----------------------------------------------------------------------------
(* The styles and the line of a bar.                                       *)

(* enum Style, #[strum(serialize = ..)]: the glyph strings of the presets  *)
(* (U+258F .. U+2588 are the block elements of the Block preset).          *)
Style_ASCII == <<" ", "0", "1", "2", "3", "4", "5", "6", "7", "8", "9", "#">>
Style_Block ==
    <<" ", " ", "U+258F", "U+258E", "U+258D", "U+258C", "U+258B", "U+258A",
      "U+2589", "U+2588">>
Style_Balloon == <<" ", ".", "o", "O", "@", "*">>

Presets == {"ASCII", "Block", "Balloon"}

(* Style::Custom(string): the string given to set_style_str                *)
Custom(str) == [name |-> "Custom", glyphs |-> str]

Preset(name) == [name |-> name, glyphs |-> <<>>]

(* Style::as_ref()                                                         *)
as_ref(style) ==
    CASE style.name = "ASCII" -> Style_ASCII
      [] style.name = "Block" -> Style_Block
      [] style.name = "Balloon" -> Style_Balloon
      [] style.name = "Custom" -> style.glyphs

(* The bar region of Display for State::fmt: filled glyphs, one glyph in   *)
(* progress, background glyphs; pn / pd is pct.  The code panics on a      *)
(* style of fewer than 2 characters (style[0], split_last().unwrap()) and  *)
(* on a style of 2 characters (n / m with m = 0).                          *)
bar_panics(style) == Len(style) < 3

bar_region(style, limit, pn, pd) ==
    LET filled == style[1]
        background == style[Len(style)]
        in_progress == SubSeq(style, 2, Len(style) - 1)
        m == Len(in_progress)
        n == (limit * pn * m) \div pd
        n_filled == n \div m
    IN  Repeat(filled, n_filled)
        \o (IF n_filled < limit THEN <<in_progress[(n % m) + 1]>> ELSE <<>>)
        \o (IF n_filled + 1 < limit
            THEN Repeat(background, limit - n_filled - 1) ELSE <<>>)

(* impl Display for State.  st.secs is last - begin in seconds; pct is the *)
(* fraction pn / pd (1 when n >= total, and NaN, which every cast takes to *)
(* 0, when n = total = 0); the rounding of f64 is not modelled.            *)
State_fmt(st, terminal_width) ==
    LET desc == IF st.desc = None THEN <<>> ELSE Unwrap(st.desc) \o <<":", " ">>
        postfix == IF st.postfix = None THEN <<>>
                   ELSE <<",", " ">> \o Unwrap(st.postfix)
        width == IF st.width = None THEN terminal_width
                 ELSE Min2(Unwrap(st.width), terminal_width)
        it == st.n
        its == Quotient02(it, st.secs)
        time == ftime(st.secs)
    IN  IF st.total = None
        THEN [panic |-> FALSE, l_bar |-> <<>>, bar |-> <<>>, r_bar |-> <<>>,
              text |-> desc \o Decimal(it) \o Text("it [") \o time \o Text(", ")
                       \o its \o Text("it/s]") \o postfix]
        ELSE LET total == Unwrap(st.total)
                 one == it >= total /\ it > 0
                 pn == IF one THEN 1 ELSE it
                 pd == IF one \/ total = 0 THEN 1 ELSE total
                 eta == IF it = 0 THEN <<"?">>
                        ELSE ftime((st.secs * (pd - pn)) \div pn)
                 l_bar == desc \o Decimal3((100 * pn) \div pd) \o Text("%|")
                 r_bar == Text("| ") \o Decimal(it) \o <<"/">> \o Decimal(total)
                          \o Text(" [") \o time \o <<"<">> \o eta \o Text(", ")
                          \o its \o Text("it/s") \o postfix \o <<"]">>
                 limit == Max2(width - (Len(l_bar) + Len(r_bar)), 0)
                 style == as_ref(st.style)
             IN  IF bar_panics(style)
                 THEN [panic |-> TRUE, l_bar |-> l_bar, bar |-> <<>>,
                       r_bar |-> r_bar, text |-> <<>>]
                 ELSE LET bar == bar_region(style, limit, pn, pd)
                      IN  [panic |-> FALSE, l_bar |-> l_bar, bar |-> bar,
                           r_bar |-> r_bar, text |-> l_bar \o bar \o r_bar]

(* State::draw: format!("{:1$}", msg, ncols) pads msg to ncols characters  *)
(* and never shortens it.                                                  *)
padded(msg, ncols) == msg \o Repeat(" ", Max2(ncols - Len(msg), 0))

(* State::draw: the message written at a row below nrows                   *)
draw_text(st, pos, ncols) ==
    IF pos = nrows - 1 THEN padded(Text("... (more hidden) ..."), ncols)
    ELSE padded(State_fmt(st, ncols).text, ncols)

(* A line is formatted and padded as State::draw does for row pos of a     *)
(* terminal of cols columns.                                               *)
Format ==
    /\ call # <<>>
    /\ call.fn = "draw"
    /\ call.out = None
    /\ call' = [call EXCEPT !.out =
                   Some([fmt |-> State_fmt(call.st, call.cols),
                         msg |-> IF State_fmt(call.st, call.cols).panic THEN <<>>
                                 ELSE draw_text(call.st, call.pos, call.cols)])]
    /\ UNCHANGED <<threads, isTty, termRows, NROWS, NEXTID, positions, bars,
                   handles, screen, above, sum, log, retotal, draws, ttyRun,
                   peak, capFirst, sinkOk, closing, poisoned, iters, order,
                   panics>>

-----------------------------------------------------------------------------
(* format.rs                                                               *)

(* A variant of format_time that does not reduce the minutes modulo 60.    *)
format_time_all_minutes(seconds) ==
    LET m == seconds \div 60
        sec == seconds % 60
        h == seconds \div 3600
    IN  IF h = 0 THEN Decimal02(m) \o <<":">> \o Decimal02(sec)
        ELSE Decimal02(h) \o <<":">> \o Decimal02(m) \o <<":">> \o Decimal02(sec)

(* fn format_time                                                          *)
format_time(seconds) ==
    LET m == (seconds \div 60) % 60
        sec == seconds % 60
        h == seconds \div 3600
    IN  IF h = 0 THEN Decimal02(m) \o <<":">> \o Decimal02(sec)
        ELSE Decimal02(h) \o <<":">> \o Decimal02(m) \o <<":">> \o Decimal02(sec)

(* The f64 value of format_sizeof is num / den, den a power of 1000; the   *)
(* divisions of f64 are taken as exact.  Below: num / den is less than     *)
(* whole + thousandths / 1000 (thousandths > 0).                           *)
Pow10(p) == <<1, 10, 100>>[p + 1]

Below(num, den, whole, thousandths) ==
    \/ num \div den < whole
    \/ /\ num \div den = whole
       /\ den = 1 \/ (num % den) < thousandths * (den \div 1000)

(* format!("{:.p$}", num / den): the value in units of 10^-p, rounded half *)
(* to even as the formatting of f64 rounds.                                *)
Rounded(num, den, p) ==
    IF den = 1 THEN num * Pow10(p)
    ELSE LET e == den \div Pow10(p)
             q == num \div e
             r == num % e
         IN  IF 2 * r > e \/ (2 * r = e /\ q % 2 = 1) THEN q + 1 ELSE q

RECURSIVE Decimals(_, _)
Decimals(n, p) ==
    IF p = 0 THEN <<>> ELSE Append(Decimals(n \div 10, p - 1), DigitChar(n % 10))

Fixed(h, p) ==
    Decimal(h \div Pow10(p))
    \o (IF p = 0 THEN <<>> ELSE <<".">> \o Decimals(h % Pow10(p), p))

Units == <<"", "k", "M", "G", "T", "P", "E", "Z">>

sized(num, den, p, unit) ==
    [scaled |-> Rounded(num, den, p), decimals |-> p, unit |-> unit,
     text |-> Fixed(Rounded(num, den, p), p)
              \o (IF unit = "" THEN <<>> ELSE <<unit>>)]

(* A variant of format_sizeof that moves to the next unit at 1000.         *)
RECURSIVE sizeof_from_1000(_, _, _)
sizeof_from_1000(num, den, i) ==
    IF i > Len(Units) THEN sized(num, den, 1, "Y")
    ELSE IF num \div den < 1000
         THEN IF Below(num, den, 99, 950)
              THEN IF Below(num, den, 9, 995)
                   THEN sized(num, den, 2, Units[i])
                   ELSE sized(num, den, 1, Units[i])
              ELSE sized(num, den, 0, Units[i])
         ELSE sizeof_from_1000(num, den * 1000, i + 1)

format_sizeof_from_1000(num) == sizeof_from_1000(num, 1, 1)

(* fn format_sizeof: the loop over the units, from unit i on.              *)
RECURSIVE sizeof(_, _, _)
sizeof(num, den, i) ==
    IF i > Len(Units) THEN sized(num, den, 1, "Y")
    ELSE IF Below(num, den, 999, 500)
         THEN IF Below(num, den, 99, 950)
              THEN IF Below(num, den, 9, 995)
                   THEN sized(num, den, 2, Units[i])
                   ELSE sized(num, den, 1, Units[i])
              ELSE sized(num, den, 0, Units[i])
         ELSE sizeof(num, den * 1000, i + 1)

(* fn format_sizeof                                                        *)
format_sizeof(num) == sizeof(num, 1, 1)

FormatSizeof ==
    /\ call # <<>>
    /\ call.fn = "format_sizeof"
    /\ call.out = None
    /\ call' = [call EXCEPT !.out = Some(format_sizeof(call.num))]
    /\ UNCHANGED <<threads, isTty, termRows, NROWS, NEXTID, positions, bars,
                   handles, screen, above, sum, log, retotal, draws, ttyRun,
                   peak, capFirst, sinkOk, closing, poisoned, iters, order,
                   panics>>

(* format_time(seconds) is called, and the ftime of the line of a bar on   *)
(* the same seconds.                                                       *)
FormatTime ==
    /\ call # <<>>
    /\ call.fn = "format_time"
    /\ call.out = None
    /\ call' = [call EXCEPT !.out =
                   Some([format_time |-> format_time(call.seconds),
                         ftime |-> ftime(call.seconds)])]
    /\ UNCHANGED <<threads, isTty, termRows, NROWS, NEXTID, positions, bars,
                   handles, screen, above, sum, log, retotal, draws, ttyRun,
                   peak, capFirst, sinkOk, closing, poisoned, iters, order,
                   panics>>

-----------------------------------------------------------------------------
(* The iterator adaptor.  The wrapped sequence is a range lo .. hi, or the *)
(* range lo .. without an end (hi = None), as in the tests of iter.rs.     *)

(* Iterator::next of the wrapped sequence                                  *)
range_next(it) ==
    IF it.hi = None \/ it.lo < Unwrap(it.hi)
    THEN [item |-> Some(it.lo), iter |-> [it EXCEPT !.lo = @ + 1]]
    ELSE [item |-> None, iter |-> it]

(* DoubleEndedIterator::next_back of the wrapped sequence (a range with an *)
(* end)                                                                    *)
range_next_back(it) ==
    IF it.lo < Unwrap(it.hi)
    THEN [item |-> Some(Unwrap(it.hi) - 1),
          iter |-> [it EXCEPT !.hi = Some(Unwrap(@) - 1)]]
    ELSE [item |-> None, iter |-> it]

(* Iterator::size_hint of the wrapped sequence                             *)
range_size_hint(it) ==
    IF it.hi = None THEN [lower |-> "usize::MAX", upper |-> None]
    ELSE LET left == Max2(Unwrap(it.hi) - it.lo, 0)
         IN  [lower |-> Some(left), upper |-> Some(left)]

(* ExactSizeIterator::len of the wrapped sequence (a range with an end)    *)
range_len(it) == Max2(Unwrap(it.hi) - it.lo, 0)

(* Whether the wrapped sequence is reversible and of exact size.           *)
is_range(it) == it.hi # None

(* AvanceIterator::avance: the total of the bar it builds.                 *)
avance_hint(it) == range_size_hint(it).upper

(* A variant of AvanceIter::next that increments the bar at every call.    *)
AvanceIter_next_every_call(a) ==
    LET r == range_next(a.iter)
    IN  [item |-> r.item, iter |-> r.iter, incs |-> 1]

(* Iterator::next for AvanceIter: incs is the number of calls of inc().    *)
AvanceIter_next(a) ==
    LET r == range_next(a.iter)
    IN  [item |-> r.item, iter |-> r.iter,
         incs |-> IF r.item # None THEN 1 ELSE 0]

(* DoubleEndedIterator::next_back for AvanceIter                           *)
AvanceIter_next_back(a) ==
    LET r == range_next_back(a.iter)
    IN  [item |-> r.item, iter |-> r.iter,
         incs |-> IF r.item # None THEN 1 ELSE 0]

(* A variant of AvanceIter::size_hint that keeps the hint of avance().     *)
AvanceIter_size_hint_first(a) == range_size_hint(a.src)

(* Iterator::size_hint and ExactSizeIterator::len for AvanceIter           *)
AvanceIter_size_hint(a) == range_size_hint(a.iter)

AvanceIter_len(a) == range_len(a.iter)

(* Iterator::next and DoubleEndedIterator::next_back for AvanceBarIter:    *)
(* clones is the number of handles cloned for the caller.                  *)
AvanceBarIter_next(a) ==
    LET r == AvanceIter_next(a)
    IN  [item |-> r.item, iter |-> r.iter, incs |-> r.incs,
         clones |-> IF r.item # None THEN 1 ELSE 0]

AvanceBarIter_next_back(a) ==
    LET r == AvanceIter_next_back(a)
    IN  [item |-> r.item, iter |-> r.iter, incs |-> r.incs,
         clones |-> IF r.item # None THEN 1 ELSE 0]

(* Iterator::size_hint and ExactSizeIterator::len for AvanceBarIter        *)
AvanceBarIter_size_hint(a) == AvanceIter_size_hint(a)

AvanceBarIter_len(a) == AvanceIter_len(a)

(* iter.avance(), followed by with_pb() or not: src is the sequence as it  *)
(* was wrapped, calls and out are the calls made on the adaptor and what   *)
(* they returned.                                                          *)
Avance(it, pb) ==
    /\ Build(new_state(avance_hint(it)), FALSE)
    /\ iters' = Put(iters, NEXTID,
                    [src |-> it, iter |-> it, pb |-> pb,
                     calls |-> <<>>, out |-> <<>>])

(* One call of next or next_back on the adaptor of bar id, with result r   *)
(* and c handles cloned for the caller.                                    *)
IterCall(id, kind, r, c) ==
    /\ Len(iters[id].calls) <= MaxSum
    /\ handles[id] + c <= MaxHandles
    /\ iters' = [iters EXCEPT ![id] =
                    [@ EXCEPT !.iter = r.iter, !.calls = Append(@, kind),
                              !.out = Append(@, r.item)]]
    /\ IF r.incs > 0
       THEN /\ Inc(id, r.incs)
            /\ handles' = [handles EXCEPT ![id] = @ + c]
       ELSE UNCHANGED <<call, threads, isTty, termRows, NROWS, NEXTID, positions, bars,
                        handles, screen, above, sum, log, retotal, draws,
                        ttyRun, peak, capFirst, sinkOk, closing, poisoned,
                        order, panics>>

(* next() on the adaptor (AvanceIter, or AvanceBarIter after with_pb)      *)
IterNext(id) ==
    /\ id \in DOMAIN iters
    /\ IterCall(id, "next", AvanceIter_next(iters[id]),
                IF iters[id].pb THEN AvanceBarIter_next(iters[id]).clones
                ELSE 0)

(* next_back() on the adaptor of a reversible sequence                     *)
IterNextBack(id) ==
    /\ id \in DOMAIN iters
    /\ is_range(iters[id].src)
    /\ IterCall(id, "next_back", AvanceIter_next_back(iters[id]),
                IF iters[id].pb THEN AvanceBarIter_next_back(iters[id]).clones
                ELSE 0)

(* The adaptor is dropped, and the handle it holds with it.                *)
DropIter(id) ==
    /\ id \in DOMAIN iters
    /\ Release(id)
    /\ iters' = Del(iters, id)

-----------------------------------------------------------------------------
(* AvanceBar::close step by step.  The thread holds the mutex of the bar   *)
(* from the first step to the last, so no other operation runs on the bar; *)
(* it holds the lock of stderr inside draw and again for the newline, and  *)
(* the lock of the registry inside reposition, and none of them between    *)
(* the steps: the operations of the other bars run between them.           *)

Busy(id) == id \in DOMAIN closing

(* State::close up to the final draw: the counters, draw(Some(0)).         *)
CloseDraw(id) ==
    /\ id \in Live /\ ~Busy(id)
    /\ drawable(isTty, positions, id)
    /\ bars' = [bars EXCEPT ![id] = close_state(@)]
    /\ ttyRun' = [ttyRun EXCEPT ![id] = close_state(@)]
    /\ peak' = [peak EXCEPT ![id] = Max2(@, bars'[id].n)]
    /\ screen' = draw(screen, positions, id, Some(0))
    /\ draws' = IF writes(positions, id, Some(0))
                THEN [draws EXCEPT ![id] = note_draw(@, "close")]
                ELSE draws
    /\ log' = [log EXCEPT ![id] =
                  note_close(@, TRUE, FALSE, writes(positions, id, Some(0)),
                             FALSE)]
    /\ closing' = Put(closing, id, "drawn")
    /\ UNCHANGED <<call, threads, isTty, termRows, capFirst, NROWS, NEXTID, positions, handles,
                   above, sum, retotal, sinkOk, poisoned, iters, order, panics>>

(* State::close: reposition(self.id).                                      *)
CloseReposition(id) ==
    /\ Busy(id) /\ closing[id] = "drawn"
    /\ positions' = reposition(positions, id)
    /\ log' = [log EXCEPT ![id] = note_close(@, FALSE, TRUE, FALSE, FALSE)]
    /\ closing' = [closing EXCEPT ![id] = "moved"]
    /\ UNCHANGED <<call, threads, isTty, termRows, capFirst, NROWS, NEXTID, bars, handles, screen,
                   above, sum, retotal, draws, ttyRun, peak, sinkOk, poisoned,
                   iters, order, panics>>

(* State::close: Print('\n'), and close returns.                           *)
CloseNewline(id) ==
    /\ Busy(id) /\ closing[id] = "moved"
    /\ screen' = IF sinkOk THEN newline(screen) ELSE screen
    /\ above' = IF sinkOk THEN Append(above, Cell(screen, 0)) ELSE above
    /\ order' = Append(order, id)
    /\ log' = [log EXCEPT ![id] = note_close(@, FALSE, FALSE, FALSE, sinkOk)]
    /\ closing' = Del(closing, id)
    /\ UNCHANGED <<call, threads, isTty, termRows, capFirst, NROWS, NEXTID, positions, bars,
                   handles, sum, retotal, draws, ttyRun, peak, sinkOk, poisoned,
                   iters, panics>>

-----------------------------------------------------------------------------
(* The registry, the handles and the terminal with up to MaxBars bars: no  *)
(* clock, so a bar draws when it is built and when its width is set.       *)

Next ==
    \/ NEXTID < MaxBars /\ New(1)
    \/ NEXTID < MaxBars /\ \E pb \in DOMAIN bars : WithConfigOf(pb)
    \/ \E id \in DOMAIN bars : SetWidth(id, 1)
    \/ \E id \in DOMAIN bars : Close(id)
    \/ \E id \in DOMAIN bars : DropHandle(id)
    \/ \E m \in {1, 3} : SetMaxProgressBars(m)

Spec == Init /\ [][Next]_vars

-----------------------------------------------------------------------------
(* Threads that close bars while other threads draw and close other bars:  *)
(* close() runs step by step, the width of a bar that is not being closed  *)
(* is set (a draw), a bar is dropped once its close() has returned.        *)

RaceIds == {0, 1, 2}

NextRace ==
    \/ NEXTID \in RaceIds /\ New(1)
    \/ \E id \in DOMAIN bars : ~Busy(id) /\ SetWidth(id, 1)
    \/ \E id \in DOMAIN bars : CloseDraw(id)
    \/ \E id \in DOMAIN bars : CloseReposition(id)
    \/ \E id \in DOMAIN bars : CloseNewline(id)
    \/ \E id \in DOMAIN bars : ~Busy(id) /\ log[id].closed /\ DropHandle(id)

SpecRace == Init /\ [][NextRace]_vars

-----------------------------------------------------------------------------
(* The handles of two bars: every handle is a clone of the first; the      *)
(* width is set and close() is called through any of them, and the State   *)
(* is dropped with the last.                                               *)

HandleIds == {0, 1}

NextHandles ==
    \/ NEXTID \in HandleIds /\ New(1)
    \/ \E id \in DOMAIN bars : CloneHandle(id)
    \/ \E id \in DOMAIN bars : SetWidth(id, 1)
    \/ \E id \in DOMAIN bars : Close(id)
    \/ \E id \in DOMAIN bars : DropHandle(id)

SpecHandles == Init /\ [][NextHandles]_vars

-----------------------------------------------------------------------------
(* The counters of one bar, its handles and the clock: every operation on  *)
(* the bar except clone, the arguments of update summing to MaxSum.  The   *)
(* bar is built below another bar, which is only built and dropped: the    *)
(* row of the bar is then beyond the last row, the last row (the ellipsis) *)
(* or a row that shows its line, as the terminal has 1, 2 or 3 rows, and   *)
(* it is row 0 once the other bar is dropped.                              *)

InitCount == Start(CountRowsSet)

CountIds == {1}
Totals == {0, 1, 2}
Steps == {1, 2}
Counted == DOMAIN bars \cap CountIds

NextCount ==
    \/ NEXTID < MaxOf(CountIds) /\ New(1)
    \/ NEXTID \in CountIds /\ \E t \in Totals : New(t)
    \/ NEXTID \in CountIds /\ \E h \in {None, Some(2)} : WithHint(h)
    \/ \E id \in Counted, k \in Steps : sum[id] + k <= MaxSum /\ Update(id, k)
    \/ \E id \in Counted : Close(id)
    \/ \E id \in DOMAIN bars : DropHandle(id)
    \/ \E id \in Counted, t \in Totals : SetTotal(id, t)
    \/ \E id \in Counted : SetPostfix(id, "p")
    \/ \E id \in Counted : SetWidth(id, 1)
    \/ \E id \in Counted, x \in Intervals \cup {0 - 1} : SetInterval(id, x)
    \/ Tick

SpecCount == InitCount /\ [][NextCount]_vars

-----------------------------------------------------------------------------
(* A bar built from the configuration of another bar: the first bar is    *)
(* built by new, configured, updated and closed; the second is built by   *)
(* with_config_of from the first, at any time, and left as it was built.  *)

ConfigIds == {0}
CopyIds == {1}
Configured == DOMAIN bars \cap ConfigIds

NextConfig ==
    \/ NEXTID \in ConfigIds /\ New(1)
    \/ NEXTID \in CopyIds /\ \E pb \in DOMAIN bars : WithConfigOf(pb)
    \/ \E id \in Configured : sum[id] + 1 <= MaxSum /\ Update(id, 1)
    \/ \E id \in Configured, t \in Totals : SetTotal(id, t)
    \/ \E id \in Configured : SetPostfix(id, "p")
    \/ \E id \in Configured : SetWidth(id, 1)
    \/ \E id \in Configured, x \in Intervals : SetInterval(id, x)
    \/ \E id \in Configured : Close(id)

SpecConfig == Init /\ [][NextConfig]_vars

-----------------------------------------------------------------------------
(* A sequence wrapped by avance(), with with_pb() or without: the adaptor  *)
(* is driven from both ends, the handles it hands out are used and         *)
(* dropped, the clock advances, and the adaptor is dropped at any time.    *)

IterIds == {0}
Sources ==
    {[lo |-> 1, hi |-> Some(h)] : h \in 1 .. MaxSum} \cup {[lo |-> 1, hi |-> None]}

NextIter ==
    \/ NEXTID \in IterIds /\ \E it \in Sources, pb \in BOOLEAN : Avance(it, pb)
    \/ \E id \in DOMAIN iters : IterNext(id)
    \/ \E id \in DOMAIN iters : IterNextBack(id)
    \/ \E id \in DOMAIN iters : handles[id] > 1 /\ SetPostfix(id, "p")
    \/ \E id \in Live : (id \in DOMAIN iters => handles[id] > 1) /\ DropHandle(id)
    \/ \E id \in DOMAIN iters : DropIter(id)
    \/ Tick

SpecIter == Init /\ [][NextIter]_vars

-----------------------------------------------------------------------------
(* The row cap set to small and to the largest u16 values while bars are   *)
(* built, redrawn and closed.                                              *)

CapArgs == {0, 1, 2, 65534, 65535}

NextCap ==
    \/ NEXTID < MaxBars /\ New(1)
    \/ \E id \in Live : SetWidth(id, 1)
    \/ \E id \in Live : Close(id)
    \/ \E m \in CapArgs : SetMaxProgressBars(m)

SpecCap == Init /\ [][NextCap]_vars

-----------------------------------------------------------------------------
(* Bars built, updated, redrawn, closed and dropped while the writes to    *)
(* stderr fail and succeed.                                                *)

IoIds == {0, 1}

NextIo ==
    \/ NEXTID \in IoIds /\ New(1)
    \/ \E id \in Live : sum[id] + 1 <= MaxSum /\ Update(id, 1)
    \/ \E id \in Live : SetWidth(id, 1)
    \/ \E id \in Live : Close(id)
    \/ \E id \in Live : DropHandle(id)
    \/ SinkFlip

SpecIo == Init /\ [][NextIo]_vars

-----------------------------------------------------------------------------
(* Bars shared between threads, one of which panics under the mutex of a   *)
(* bar; the others go on with their handles and drop them.                 *)

PoisonIds == {0, 1}

NextPoison ==
    \/ NEXTID \in PoisonIds /\ New(1)
    \/ \E id \in Live : CloneHandle(id)
    \/ \E id \in Live \ poisoned : sum[id] + 1 <= MaxSum /\ Update(id, 1)
    \/ \E id \in Live \ poisoned : SetWidth(id, 1)
    \/ \E id \in Live \ poisoned : Close(id)
    \/ \E id \in Live : SetPostfixPanics(id)
    \/ \E id \in Live : LockPanics(id)
    \/ \E id \in Live : DropHandle(id)

SpecPoison == Init /\ [][NextPoison]_vars

-----------------------------------------------------------------------------
(* The line of a bar, for counters, totals, times, descriptions, postfixes, *)
(* widths, styles and terminal widths of every kind: narrower and wider    *)
(* than the text around the bar region.                                    *)

FmtSecs == {0, 3, 3700}
FmtWidths == {None, Some(30), Some(40)}
FmtCols == {24, 36, 44}
FmtTexts == {None, Some(<<"a", "b">>)}
FmtStyles ==
    {Preset(name) : name \in Presets}
        \cup {Custom(<<"=", ">", "-">>), Custom(<<"=", "-">>)}
FmtStates ==
    [n : 0 .. MaxSum, total : {None} \cup {Some(t) : t \in {0, 2, MaxSum}},
     secs : FmtSecs, desc : FmtTexts, postfix : FmtTexts, width : FmtWidths,
     style : FmtStyles]

InitFormat ==
    /\ Idle(TermRowsSet)
    /\ call \in [fn : {"draw"}, st : FmtStates, pos : {0, 2}, cols : FmtCols,
                 out : {None}]

NextFormat == Format

SpecFormat == InitFormat /\ [][NextFormat]_vars

-----------------------------------------------------------------------------
(* format_time on seconds below and above one hour, one hundred hours and  *)
(* at the values of its tests.                                             *)

TimeSecs ==
    {45, 1800, 43200, 3599, 3600, 359999, 360000, 2147483647}
        \cup {59 * k : k \in 0 .. 70} \cup {3601 * k : k \in 1 .. 30}

InitTime ==
    /\ Idle(TermRowsSet)
    /\ call \in [fn : {"format_time"}, seconds : TimeSecs, out : {None}]

NextTime == FormatTime

SpecTime == InitTime /\ [][NextTime]_vars

-----------------------------------------------------------------------------
(* format_sizeof on the values of its tests, on both sides of every        *)
(* threshold of every unit, and on other values.                           *)

SizeNums ==
    {10, 1234, 12345, 1234000, 999000000, 999999000, 2147483647}
        \cup (0 .. 12) \cup (94 .. 104) \cup (994 .. 1004)
        \cup {9994, 9995, 9996, 99949, 99950, 99951, 999499, 999500, 999501}
        \cup {9994999, 9995000, 99949999, 99950000, 999499999, 999500000}
        \cup {1237 * k : k \in 1 .. 40}

InitSizeof ==
    /\ Idle(TermRowsSet)
    /\ call \in [fn : {"format_sizeof"}, num : SizeNums, out : {None}]

NextSizeof == FormatSizeof

SpecSizeof == InitSizeof /\ [][NextSizeof]_vars

-----------------------------------------------------------------------------
(* C1: the rows of the registry are exactly 0 .. k-1 for its k entries (no *)
(* row repeated, none skipped) after every creation and close; a new bar   *)
(* gets the largest row plus one (0 in an empty registry) and a close      *)
(* lowers by one exactly the rows greater than the removed row.            *)

Rows(pos) == {pos[i] : i \in DOMAIN pos}

C1_Contiguous ==
    /\ Rows(positions) = 0 .. Cardinality(DOMAIN positions) - 1
    /\ Cardinality(Rows(positions)) = Cardinality(DOMAIN positions)

C1_Step ==
    /\ \A id \in DOMAIN positions' \ DOMAIN positions :
          /\ positions'[id] = IF DOMAIN positions = {} THEN 0
                              ELSE MaxOf(Rows(positions)) + 1
          /\ \A i \in DOMAIN positions : positions'[i] = positions[i]
    /\ \A id \in DOMAIN positions \ DOMAIN positions' :
          \A i \in DOMAIN positions' :
              positions'[i] = IF positions[i] > positions[id]
                              THEN positions[i] - 1 ELSE positions[i]

-----------------------------------------------------------------------------
(* C2: the registry holds exactly the bars built and not yet closed, by    *)
(* close() or by the drop of the last handle, on a TTY and on a            *)
(* destination that is not a TTY alike.                                    *)

Closed(id) == id \notin DOMAIN bars \/ log[id].closed

C2_RegistryIsOpenBars ==
    DOMAIN positions = {id \in DOMAIN log : ~Closed(id)}

-----------------------------------------------------------------------------
(* C3: over the life of a bar at most one final draw, one newline and one  *)
(* reposition happen, exactly one of each once the bar is closed on a TTY; *)
(* a close of a bar that was closed before leaves the registry, the        *)
(* terminal and the counters n and cached as they are.                     *)

C3_Once ==
    \A id \in DOMAIN log :
        /\ log[id].finals <= 1
        /\ log[id].newlines <= 1
        /\ log[id].repositions <= 1
        /\ isTty /\ Closed(id) =>
              /\ log[id].finals = 1
              /\ log[id].newlines = 1
              /\ log[id].repositions = 1

C3_Again ==
    \A id \in DOMAIN bars :
        log[id].closed /\ (Close(id) \/ DropHandle(id)) =>
            /\ UNCHANGED <<positions, screen, above>>
            /\ id \in DOMAIN bars' =>
                  /\ bars'[id].n = bars[id].n
                  /\ bars'[id].cached = bars[id].cached

-----------------------------------------------------------------------------
(* C4: after every update on a bar, the counter n equals the sum of the    *)
(* arguments of all the updates made on the bar so far.                    *)

C4_SumInN == \A id \in DOMAIN bars : bars[id].n = sum[id]

(* C4, as the code has it: update adds its argument to cached, and cached  *)
(* is added to n when the interval has elapsed, when the total is reached  *)
(* or at close.  For a bar whose total was not changed after an update:    *)
(* n + cached is the sum of the arguments while the bar has no total or    *)
(* the sum is below the total, and n is the total once the sum reaches it. *)

C4_SumInNAndCached ==
    \A id \in DOMAIN bars :
        ~retotal[id] =>
            IF bars[id].total = None \/ sum[id] < Unwrap(bars[id].total)
            THEN bars[id].n + bars[id].cached = sum[id]
            ELSE bars[id].n = Unwrap(bars[id].total)

(* Steps counted in n and further steps still in cached.                   *)
C4_Witness ==
    \E id \in DOMAIN bars :
        /\ ~retotal[id]
        /\ bars[id].n > 0
        /\ bars[id].cached > 0
        /\ bars[id].n + bars[id].cached = sum[id]

-----------------------------------------------------------------------------
(* C5: a bar with a total (not changed after an update) has n equal to the *)
(* total as soon as the sum of the arguments of its updates has reached    *)
(* the total, and from then on, whatever the clock, the row of the bar and *)
(* the destination; and no update (a step that adds to the sum) leaves n   *)
(* below a total that n + cached has reached.                              *)

C5_AtTotal ==
    \A id \in DOMAIN bars :
        bars[id].total # None /\ ~retotal[id]
            /\ sum[id] >= Unwrap(bars[id].total)
        => bars[id].n = Unwrap(bars[id].total)

C5_Step ==
    \A id \in DOMAIN bars \cap DOMAIN bars' :
        sum'[id] > sum[id] /\ bars'[id].total # None =>
            ~ (/\ bars'[id].n < Unwrap(bars'[id].total)
               /\ bars'[id].n + bars'[id].cached >= Unwrap(bars'[id].total))

C5_ReachesTotal == []C5_AtTotal /\ [][C5_Step]_vars

(* The total reached, before the interval has elapsed, by a bar on a TTY   *)
(* that has never written on the terminal: its row is beyond the last row. *)
C5_Witness ==
    \E id \in DOMAIN bars :
        /\ isTty /\ id \in DOMAIN positions /\ positions[id] >= nrows
        /\ bars[id].elapsed < bars[id].interval
        /\ bars[id].total # None /\ ~retotal[id]
        /\ Unwrap(bars[id].total) > 0
        /\ sum[id] > Unwrap(bars[id].total)
        /\ bars[id].n = Unwrap(bars[id].total)
        /\ bars[id].interval = 2
        /\ draws[id].since = None
        /\ ~log[id].closed

-----------------------------------------------------------------------------
(* C6: when close() returns on a bar with a total, n <= total.             *)

C6_Step ==
    \A id \in DOMAIN bars :
        Close(id) /\ bars'[id].total # None =>
            bars'[id].n <= Unwrap(bars'[id].total)

C6_ClosedWithinTotal == [][C6_Step]_vars

-----------------------------------------------------------------------------
(* C7: no operation on a bar makes its counter n smaller.                  *)

C7_StepAny ==
    \A id \in DOMAIN bars \cap DOMAIN bars' : bars'[id].n >= bars[id].n

C7_NeverSmaller == [][C7_StepAny]_vars

(* C7, as the code has it: no operation makes n smaller, but for the close *)
(* of a bar whose n is above its total (set_total has lowered the total),  *)
(* which makes n the total.                                                *)

C7_Step ==
    \A id \in DOMAIN bars \cap DOMAIN bars' :
        \/ bars'[id].n >= bars[id].n
        \/ /\ Close(id)
           /\ bars[id].total # None
           /\ bars[id].n > Unwrap(bars[id].total)
           /\ bars'[id].n = Unwrap(bars[id].total)

C7_SmallerOnlyAtClose == [][C7_Step]_vars

(* A bar that was closed with n above its total, after it has grown.       *)
C7_Witness ==
    \E id \in DOMAIN bars :
        /\ log[id].closed
        /\ bars[id].n > 0
        /\ bars[id].n < peak[id]
        /\ bars[id].n = Unwrap(bars[id].total)

-----------------------------------------------------------------------------
(* C8: a draw of a bar that writes on the terminal, made by an update or   *)
(* by a setter, comes at least the interval of the bar after the last draw *)
(* of the bar that wrote.                                                  *)

Drew(id) ==
    /\ writes(positions, id, None)
    /\ \/ \E k \in Steps :
              Update(id, k) /\ State_update(bars[id], k, TRUE).drew # <<>>
       \/ \E t \in Totals : SetTotal(id, t)
       \/ SetPostfix(id, "p")
       \/ SetWidth(id, 1)

C8_StepAny ==
    \A id \in DOMAIN bars :
        Drew(id) /\ draws[id].since # None =>
            Unwrap(draws[id].since) >= bars[id].interval

C8_RateLimit == [][C8_StepAny]_vars

(* C8, as the code has it: the interval limits the draw in the second half *)
(* of update only (an update is a step that adds to the sum).  Such a draw *)
(* comes at least the interval after the last draw that wrote and was made *)
(* by an update or by the constructor; when it follows, in the same        *)
(* update, the draw made on reaching the total, the interval is zero.  The *)
(* draws of the setters and the draw on reaching the total do not wait.    *)

C8_Step ==
    \A id \in DOMAIN bars \cap DOMAIN bars' :
        sum'[id] > sum[id] /\ writes(positions, id, None) =>
            LET drew == State_update(bars[id], sum'[id] - sum[id], TRUE).drew
            IN  /\ drew = <<"interval">> =>
                      \/ draws[id].sinceUpd = None
                      \/ Unwrap(draws[id].sinceUpd) >= bars[id].interval
                /\ drew = <<"complete", "interval">> => bars[id].interval = 0

C8_IntervalDraws == [][C8_Step]_vars

(* An update has just drawn, the interval elapsed, short of the total,     *)
(* and a setter has drawn in the same tick.                                *)
C8_Witness ==
    \E id \in DOMAIN bars :
        /\ ~retotal[id] /\ ~log[id].closed
        /\ bars[id].total # None
        /\ bars[id].n > 0
        /\ bars[id].n < Unwrap(bars[id].total)
        /\ bars[id].interval = 2
        /\ bars[id].elapsed = 0
        /\ bars[id].postfix # None
        /\ draws[id].sinceUpd = Some(0)

-----------------------------------------------------------------------------
(* C9: with rows = min(terminal height, NROWS), or the terminal height     *)
(* when NROWS is 0, a draw at a row r >= rows writes nothing, at           *)
(* r = rows - 1 the ellipsis, at r < rows - 1 the line of the bar; and     *)
(* once set_max_progress_bars(m) was called, before any bar was built, the *)
(* terminal shows at and below the anchor at most m lines of live bars     *)
(* and at most one ellipsis row.                                           *)

BarRows == {r \in DOMAIN screen :
               screen[r].kind = "bar" /\ screen[r].id \in DOMAIN positions}
EllipsisRows == {r \in DOMAIN screen : screen[r].kind = "ellipsis"}

C9_Rendered ==
    capFirst /\ NROWS # 0 =>
        /\ Cardinality(BarRows) <= NROWS - 1
        /\ Cardinality(EllipsisRows) <= 1

-----------------------------------------------------------------------------
(* C10: when the destination is not a TTY nothing is ever written on the   *)
(* terminal, by a draw or by a clear, and the State of a bar that close()  *)
(* was not called on is what the same operations give on a TTY.            *)

C10_NoTty ==
    ~isTty =>
        /\ \A r \in DOMAIN screen : screen[r] = Blank
        /\ above = <<>>
        /\ \A id \in DOMAIN draws : draws[id] = no_draws
        /\ \A id \in DOMAIN bars : ~log[id].closed => ttyRun[id] = bars[id]

(* Updates counted in n and in cached, and a width set, with no TTY.       *)
C10_Witness ==
    /\ ~isTty
    /\ \E id \in DOMAIN bars :
          /\ ~log[id].closed
          /\ bars[id].n > 0
          /\ bars[id].cached > 0
          /\ bars[id].width # None

-----------------------------------------------------------------------------
(* C11: when a close() of a bar on a TTY returns, the line just above the  *)
(* new anchor is the final line of that bar, whatever the other bars have  *)
(* drawn and closed while the close() was running.                         *)

C11_Step ==
    \A id \in DOMAIN closing :
        CloseNewline(id) => above' = Append(above, Line(id))

C11_FinalLineStays == [][C11_Step]_vars

-----------------------------------------------------------------------------
(* C12: the lines above the anchor are the final lines of the closed bars, *)
(* one line for each bar, from top to bottom in the order of the closes.   *)

C12_ClosingOrder ==
    /\ Len(above) = Len(order)
    /\ \A i \in DOMAIN above : above[i] = Line(order[i])

-----------------------------------------------------------------------------
(* C13: the handles of a bar are references to one State.  The State lives *)
(* as long as a handle does; a clone and the drop of a handle that is not  *)
(* the last change nothing but the number of handles; the bar is closed    *)
(* by close() or by the drop of the last handle only, which (on a TTY)     *)
(* takes it out of the registry.                                           *)

C13_Held ==
    /\ DOMAIN handles = DOMAIN bars
    /\ \A id \in DOMAIN bars :
          /\ handles[id] >= 1
          /\ isTty /\ ~log[id].closed =>
                /\ id \in DOMAIN positions
                /\ log[id] = no_log

C13_Step ==
    \A id \in DOMAIN bars :
        /\ id \in DOMAIN handles' /\ handles'[id] = handles[id] + 1 =>
              UNCHANGED <<bars, positions, screen, above, log>>
        /\ handles[id] > 1 /\ id \in DOMAIN handles'
              /\ handles'[id] = handles[id] - 1 =>
              UNCHANGED <<bars, positions, screen, above, log>>
        /\ isTty /\ id \notin DOMAIN handles' => id \notin DOMAIN positions'

C13_SharedState == []C13_Held /\ [][C13_Step]_vars

(* A bar two handles hold, not closed, after the width was set through one *)
(* of them, and a bar that the drop of its last handle has closed.         *)
C13_Witness ==
    /\ isTty
    /\ \E id \in DOMAIN bars :
          /\ handles[id] > 1
          /\ ~log[id].closed
          /\ bars[id].width # None
    /\ \E id \in DOMAIN log :
          /\ id \notin DOMAIN bars
          /\ ~log[id].closed
          /\ log[id].repositions = 1

-----------------------------------------------------------------------------
(* C14: with_config_of(pb) builds a bar with an id no bar has had and a    *)
(* row no bar has, with n = 0 and cached = 0 and with the total, the       *)
(* interval, the postfix and the width of pb; it leaves the State, the     *)
(* row and the history of pb and of every other bar as they are.  So it    *)
(* does when pb is closed.                                                 *)

C14_Step ==
    \A pb \in DOMAIN bars :
        WithConfigOf(pb) =>
            LET id == NEXTID
            IN  /\ id \notin DOMAIN log
                /\ id \notin DOMAIN positions
                /\ id \in DOMAIN bars' /\ id \in DOMAIN positions'
                /\ positions'[id] \notin Rows(positions)
                /\ bars'[id].n = 0
                /\ bars'[id].cached = 0
                /\ bars'[id].total = bars[pb].total
                /\ bars'[id].interval = bars[pb].interval
                /\ bars'[id].postfix = bars[pb].postfix
                /\ bars'[id].width = bars[pb].width
                /\ \A i \in DOMAIN bars : bars'[i] = bars[i]
                /\ \A i \in DOMAIN positions : positions'[i] = positions[i]
                /\ \A i \in DOMAIN log : log'[i] = log[i]

C14_ConfigOnly == [][C14_Step]_vars

(* A bar built from a closed bar that has counted steps: it has the        *)
(* configuration and the total of that bar, and has counted nothing.       *)
C14_Witness ==
    \E pb \in Configured, id \in DOMAIN bars \cap CopyIds :
        /\ log[pb].closed
        /\ bars[pb].n > 0
        /\ bars[id].n = 0 /\ bars[id].cached = 0
        /\ bars[id].total = bars[pb].total
        /\ bars[id].postfix # None
        /\ bars[id].width # None
        /\ bars[id].interval # DefaultInterval
        /\ id \in DOMAIN positions

-----------------------------------------------------------------------------
(* The wrapped sequence driven directly by the same calls: where it is and *)
(* what it returned.                                                       *)
RECURSIVE Drive(_, _)
Drive(it, calls) ==
    IF calls = <<>> THEN [iter |-> it, out |-> <<>>]
    ELSE LET p == Drive(it, SubSeq(calls, 1, Len(calls) - 1))
             r == IF calls[Len(calls)] = "next" THEN range_next(p.iter)
                  ELSE range_next_back(p.iter)
         IN  [iter |-> r.iter, out |-> Append(p.out, r.item)]

Yielded(a) == {i \in DOMAIN a.out : a.out[i] # None}

(* C15. The adaptor returns what the wrapped sequence returns to the same  *)
(* calls of next and next_back, in the same order, and the bar has         *)
(* received one increment for each element yielded: a call that yields an  *)
(* element adds exactly 1, a call on the exhausted sequence adds 0.        *)
C15_Yields ==
    \A id \in DOMAIN iters :
        /\ iters[id].out = Drive(iters[id].src, iters[id].calls).out
        /\ sum[id] = Cardinality(Yielded(iters[id]))

C15_Step ==
    \A id \in DOMAIN iters :
        (id \in DOMAIN iters' /\ Len(iters'[id].calls) > Len(iters[id].calls))
        => sum'[id] - sum[id] =
              IF iters'[id].out[Len(iters'[id].out)] # None THEN 1 ELSE 0

C15_OnePerElement == []C15_Yields /\ [][C15_Step]_vars

(* A sequence of two elements taken from both ends, then found exhausted.  *)
C15_Witness ==
    \E id \in DOMAIN iters :
        /\ iters[id].calls = <<"next_back", "next", "next", "next_back">>
        /\ iters[id].out = <<Some(2), Some(1), None, None>>
        /\ sum[id] = 2

(* C16. avance() builds a bar whose total is the upper size hint of the    *)
(* wrapped sequence, no total when there is none, and at every step the    *)
(* adaptor, with with_pb() as well, reports the size_hint and the len of   *)
(* the wrapped sequence.                                                   *)
C16_Hints ==
    \A id \in DOMAIN iters :
        LET a == iters[id]
            twin == Drive(a.src, a.calls).iter
        IN  /\ AvanceIter_size_hint(a) = range_size_hint(twin)
            /\ a.pb => AvanceBarIter_size_hint(a) = range_size_hint(twin)
            /\ is_range(a.src) => AvanceIter_len(a) = range_len(twin)
            /\ is_range(a.src) /\ a.pb => AvanceBarIter_len(a) = range_len(twin)

C16_Step ==
    \A it \in Sources, pb \in BOOLEAN :
        Avance(it, pb) =>
            /\ bars'[NEXTID].total =
                  IF it.hi = None THEN None ELSE Some(Unwrap(it.hi) - it.lo)
            /\ bars'[NEXTID].n = 0

C16_SameHints == []C16_Hints /\ [][C16_Step]_vars

(* A sequence without an end, and one with an end, part of the way.        *)
C16_Witness ==
    \E id \in DOMAIN iters :
        /\ iters[id].pb
        /\ Yielded(iters[id]) # {}
        /\ \/ ~is_range(iters[id].src) /\ bars[id].total = None
           \/ /\ is_range(iters[id].src) /\ bars[id].total = Some(2)
              /\ AvanceIter_len(iters[id]) = 1

-----------------------------------------------------------------------------
(* C17. set_max_progress_bars(n) stores max(n + 1, 2) in NROWS for every   *)
(* u16 value n, 65535 included, and does not panic.                        *)
C17_Step ==
    \A m \in CapArgs :
        SetMaxProgressBars(m) => NROWS' = Max2(m + 1, 2) /\ panics' = panics

C17_CapStored == [][C17_Step]_vars

-----------------------------------------------------------------------------
(* C18. set_interval keeps only positive intervals: after a call with zero *)
(* or a negative value the bar has the default interval, after a call with *)
(* a positive value it has that value.                                     *)
C18_Step ==
    \A id \in Counted, x \in Intervals \cup {0 - 1} :
        SetInterval(id, x) =>
            bars'[id].interval = IF x > 0 THEN x ELSE DefaultInterval

C18_PositiveOnly == [][C18_Step]_vars

-----------------------------------------------------------------------------
(* C19. A write to the terminal that fails changes nothing but the         *)
(* terminal: no operation panics, an update leaves the counters that       *)
(* State::update computes, and on a terminal a closed bar is out of the    *)
(* registry with the rows of the others contiguous from 0, whether the     *)
(* writes of the close failed or not.                                      *)
C19_Held ==
    /\ panics = {}
    /\ isTty => \A id \in DOMAIN log : log[id].closed => id \notin DOMAIN positions
    /\ Rows(positions) = 0 .. Cardinality(DOMAIN positions) - 1

C19_Step ==
    \A id \in Live :
        /\ (id \in DOMAIN sum' /\ sum'[id] > sum[id]) =>
              bars'[id] = State_update(bars[id], sum'[id] - sum[id], TRUE).st
        /\ (id \in DOMAIN positions /\ id \notin DOMAIN positions') =>
              /\ positions' = reposition(positions, id)
              /\ id \in DOMAIN bars' => bars'[id] = close_state(bars[id])

C19_Swallowed == []C19_Held /\ [][C19_Step]_vars

(* No write has succeeded: the first bar was closed, the second moved up   *)
(* to row 0 and took an update.                                            *)
C19_Witness ==
    /\ isTty /\ ~sinkOk
    /\ \E id \in DOMAIN log, other \in DOMAIN positions :
          /\ log[id].closed /\ log[id].finals = 0 /\ log[id].newlines = 0
          /\ log[id].repositions = 1
          /\ other > id /\ positions[other] = 0
          /\ bars[other].n = 1 /\ draws[other].since = None

-----------------------------------------------------------------------------
(* C20. A panic under the mutex of a bar poisons that bar only: on a       *)
(* terminal its row is released and the rows of the others are contiguous  *)
(* from 0, no later operation on it panics, and it is not drawn again.     *)
C20_Held ==
    /\ isTty => \A id \in poisoned : id \notin DOMAIN positions
    /\ Rows(positions) = 0 .. Cardinality(DOMAIN positions) - 1
    /\ \A id \in DOMAIN log : LockPanic(id) \notin panics

C20_Step ==
    \A id \in poisoned :
        /\ id \in DOMAIN draws' => draws'[id] = draws[id]
        /\ log'[id].finals = log[id].finals

C20_PoisonsOnlyTheBar == []C20_Held /\ [][C20_Step]_vars

-----------------------------------------------------------------------------
(* The parts of the line of a bounded bar that was formatted.              *)
Formatted == call # <<>> /\ call.fn = "draw" /\ call.out # None
BarLine ==
    /\ Formatted
    /\ call.st.total # None
    /\ Len(as_ref(call.st.style)) >= 3
    /\ call.pos # nrows - 1

EffectiveWidth ==
    IF call.st.width = None THEN call.cols
    ELSE Min2(Unwrap(call.st.width), call.cols)

(* The region is Filled* Partial? Background* of the style.                *)
Shaped(bar, style) ==
    \E f \in 0 .. Len(bar), p \in 0 .. 1 :
        /\ f + p <= Len(bar)
        /\ \A i \in 1 .. f : bar[i] = style[1]
        /\ p = 1 => \E j \in 2 .. Len(style) - 1 : bar[f + 1] = style[j]
        /\ \A i \in f + p + 1 .. Len(bar) : bar[i] = style[Len(style)]

(* C21 (the bar region). The bar region of a drawn bounded bar has         *)
(* max(0, W - len(l_bar) - len(r_bar)) characters, filled glyphs, then at  *)
(* most one glyph in progress, then background glyphs.                     *)
C21_Region ==
    BarLine =>
        LET o == Unwrap(call.out).fmt
        IN  /\ ~o.panic
            /\ Len(o.bar) =
                  Max2(EffectiveWidth - Len(o.l_bar) - Len(o.r_bar), 0)
            /\ Shaped(o.bar, as_ref(call.st.style))

(* C21. The bar region of a drawn bounded bar is as above, and the line    *)
(* written has exactly cols characters, for every width, description and   *)
(* postfix.                                                                *)
C21_LineIsCols ==
    BarLine => C21_Region /\ Len(Unwrap(call.out).msg) = call.cols

-----------------------------------------------------------------------------
(* C22. A custom style of 2 characters, a filled and a background glyph,   *)
(* is accepted: the line of a bounded bar is formatted without a panic,    *)
(* and the glyph in progress is the filled glyph.                          *)
C22_TwoGlyphs ==
    (/\ Formatted
     /\ call.st.total # None
     /\ call.st.style.name = "Custom"
     /\ Len(call.st.style.glyphs) = 2)
    => LET o == Unwrap(call.out).fmt
           style == call.st.style.glyphs
       IN  /\ ~o.panic
           /\ Len(o.bar) = Max2(EffectiveWidth - Len(o.l_bar) - Len(o.r_bar), 0)
           /\ \A i \in DOMAIN o.bar : o.bar[i] \in {style[1], style[2]}

-----------------------------------------------------------------------------
(* C23. For every preset the bar region is made of the first character of  *)
(* the glyph string as filled glyph, the last as background, those between *)
(* as glyphs in progress; with the ASCII preset a complete bar is made of  *)
(* '#' only, and an empty one is '0' followed by spaces.                   *)
C23_PresetGlyphs ==
    (BarLine /\ call.st.style.name \in Presets)
    => LET o == Unwrap(call.out).fmt
       IN  /\ Shaped(o.bar, as_ref(call.st.style))
           /\ (call.st.style.name = "ASCII" /\ o.bar # <<>>) =>
                 /\ (call.st.n > 0 /\ call.st.n >= Unwrap(call.st.total))
                       => o.bar = Repeat("#", Len(o.bar))
                 /\ call.st.n = 0
                       => o.bar = <<"0">> \o Repeat(" ", Len(o.bar) - 1)

-----------------------------------------------------------------------------
(* C24. format_time(s) is MM:SS below one hour and HH:MM:SS from one hour  *)
(* on, MM = (s / 60) mod 60 and SS = s mod 60 on two digits, HH = s / 3600 *)
(* on two digits or more; ftime in the line of a bar gives the same text.  *)
TwoDigits(n) == <<DigitChar(n \div 10), DigitChar(n % 10)>>

Hours(h) == IF h < 10 THEN <<"0", DigitChar(h)>> ELSE Decimal(h)

C24_Time ==
    (call # <<>> /\ call.fn = "format_time" /\ call.out # None)
    => LET s == call.seconds
           o == Unwrap(call.out)
           mmss == TwoDigits((s \div 60) % 60) \o <<":">> \o TwoDigits(s % 60)
       IN  /\ s < 3600 => o.format_time = mmss
           /\ s >= 3600 => o.format_time = Hours(s \div 3600) \o <<":">> \o mmss
           /\ s = 45 => o.format_time = <<"0", "0", ":", "4", "5">>
           /\ s = 1800 => o.format_time = <<"3", "0", ":", "0", "0">>
           /\ o.ftime = o.format_time

C24_Witness ==
    /\ call # <<>> /\ call.fn = "format_time" /\ call.out # None
    /\ call.seconds = 43200
    /\ Unwrap(call.out).format_time = <<"1", "2", ":", "0", "0", ":", "0", "0">>
    /\ Unwrap(call.out).ftime = <<"1", "2", ":", "0", "0", ":", "0", "0">>

-----------------------------------------------------------------------------
(* C25. format_sizeof(x) divides x by 1000 until the value is below 999.5, *)
(* prints it with 2 decimals below 9.995, with 1 below 99.95, with none    *)
(* otherwise, and appends the SI suffix of the number of divisions.        *)
SI == <<"", "k", "M", "G", "T", "P", "E", "Z", "Y">>

Sized == call # <<>> /\ call.fn = "format_sizeof" /\ call.out # None

(* x / 1000^k < thousandths / 1000, for the x below 2^31 of SizeNums.      *)
Less(x, k, thousandths) ==
    CASE k = 0 -> x < (thousandths + 999) \div 1000
      [] k = 1 -> x < thousandths
      [] k = 2 -> x < thousandths * 1000
      [] k = 3 -> TRUE

Divisions(x) ==
    CHOOSE k \in 0 .. 3 :
        Less(x, k, 999500) /\ \A j \in 0 .. k - 1 : ~Less(x, j, 999500)

C25_Sizeof ==
    Sized =>
        LET x == call.num
            o == Unwrap(call.out)
            k == Divisions(x)
            p == IF Less(x, k, 9995) THEN 2 ELSE IF Less(x, k, 99950) THEN 1 ELSE 0
            unit == <<1, 1000, 1000000, 1000000000>>[k + 1]
        IN  /\ o.unit = SI[k + 1]
            /\ o.decimals = p
            /\ k = 0 => o.scaled = x * Pow10(p)
            /\ k > 0 => o.scaled - x \div (unit \div Pow10(p)) \in {0, 1}
            /\ o.text = Fixed(o.scaled, p) \o (IF k = 0 THEN <<>> ELSE <<SI[k + 1]>>)
            /\ x = 10 => o.text = <<"1", "0", ".", "0">>
            /\ x = 1234 => o.text = <<"1", ".", "2", "3", "k">>
            /\ x = 12345 => o.text = <<"1", "2", ".", "3", "k">>
            /\ x = 1234000 => o.text = <<"1", ".", "2", "3", "M">>
            /\ x = 999000000 => o.text = <<"9", "9", "9", "M">>

C25_Witness ==
    /\ Sized
    /\ call.num = 999999000
    /\ Unwrap(call.out).text = <<"1", ".", "0", "0", "G">>

-----------------------------------------------------------------------------
(* C29: while one bar closes (final draw, reposition, newline), a draw of  *)
(* another live bar writes only on the terminal line of that bar: it never *)
(* replaces the line of a different bar that is registered and is not     *)
(* closing.                                                                *)

Drawing(id) ==
    \/ SetWidth(id, 1) /\ writes(positions, id, None)
    \/ id = NEXTID /\ New(1) /\ writes(positions', id, None)

LineOfOther(cell, id) ==
    /\ cell.kind = "bar"
    /\ cell.id # id
    /\ cell.id \in DOMAIN positions' \ DOMAIN closing

C29_Step ==
    \A id \in DOMAIN bars' \ DOMAIN closing :
        Drawing(id) =>
            ~LineOfOther(Cell(screen, Unwrap(draw_row(positions', id, None))), id)

C29_OwnLineOnly == [][C29_Step]_vars

-----------------------------------------------------------------------------
(* The locks.  Every operation is the sequence of its lock, unlock and     *)
(* registry steps, in the order of the code; an instruction is a pair      *)
(* <<kind, argument>>.  A thread executes the program of the operation it  *)
(* called one instruction at a time.                                       *)

(* self.state (Mutex<State>), POSITIONS (Mutex<HashMap>), stderr().lock()  *)
BarMutex(id) == [lock |-> "state", of |-> id]
Registry == [lock |-> "positions", of |-> None]
Stderr == [lock |-> "stderr", of |-> None]

(* get_pos: try_get_pos().unwrap(); reposition: positions.get(&id).unwrap() *)
(* positions().lock().unwrap() after a panic under the registry guard.     *)
PosPanic(id) == [at |-> "get_pos", bar |-> id]
RepositionPanic(id) == [at |-> "reposition", bar |-> id]
RegistryPanic == [at |-> "positions", bar |-> None]

(* fn State::try_get_pos: the guard lives until the function returns.      *)
try_get_pos_steps ==
    << <<"lock", "registry">>, <<"get", "">>, <<"unlock", "registry">> >>

(* fn State::drawable called from fn f, and f's return when it is false.   *)
drawable_steps(f) ==
    << <<"tty", f>> >> \o try_get_pos_steps \o << <<"return", f>> >>

(* fn State::get_pos                                                       *)
get_pos_steps == try_get_pos_steps \o << <<"unwrap", "">> >>

(* fn State::draw(pos): the stderr guard lives until draw returns.         *)
draw_steps(at) ==
    drawable_steps("draw") \o << <<"lock", "stderr">> >>
    \o (IF at = None THEN get_pos_steps ELSE <<>>)
    \o << <<"write", "">>, <<"unlock", "stderr">>, <<"end", "draw">> >>

(* fn State::clear                                                         *)
clear_steps ==
    drawable_steps("clear") \o << <<"lock", "stderr">> >> \o get_pos_steps
    \o << <<"write", "">>, <<"unlock", "stderr">>, <<"end", "clear">> >>

(* fn next_free_pos                                                        *)
next_free_pos_steps ==
    << <<"lock", "registry">>, <<"alloc", "">>, <<"unlock", "registry">> >>

(* fn reposition                                                           *)
reposition_steps_held ==
    << <<"lock", "registry">>, <<"remove", "">> >>

reposition_steps ==
    << <<"lock", "registry">>, <<"remove", "">>, <<"unlock", "registry">> >>

(* fn is_finished                                                          *)
is_finished_steps ==
    << <<"lock", "registry">>, <<"empty", "">>, <<"unlock", "registry">> >>

(* fn State::close                                                         *)
State_close_steps ==
    drawable_steps("close") \o draw_steps(Some(0)) \o reposition_steps
    \o << <<"lock", "stderr">>, <<"write", "">> >> \o is_finished_steps
    \o << <<"unlock", "stderr">>, <<"end", "close">> >>

(* fn AvanceBar::refresh                                                   *)
refresh_steps ==
    << <<"lock", "bar">> >> \o draw_steps(None) \o << <<"unlock", "bar">> >>

(* fn AvanceBar::close                                                     *)
AvanceBar_close_unlocked == State_close_steps

AvanceBar_close_steps ==
    << <<"lock", "bar">> >> \o State_close_steps \o << <<"unlock", "bar">> >>

(* The operations a thread calls on a handle, and the constructors.  The   *)
(* new bar is handed to the other threads when the constructor returns;    *)
(* the drop of the last handle runs State::drop, which is close without    *)
(* the mutex.                                                              *)
Program(op) ==
    CASE op = "new" ->
            next_free_pos_steps \o refresh_steps \o << <<"give", "">> >>
      [] op = "with_config_of" ->
            << <<"lock", "src">> >> \o next_free_pos_steps
            \o << <<"unlock", "src">> >> \o refresh_steps
            \o << <<"give", "">> >>
      [] op = "update" -> refresh_steps
      [] op = "set_width" ->
            << <<"lock", "bar">> >> \o clear_steps \o draw_steps(None)
            \o << <<"unlock", "bar">> >>
      [] op = "set_interval" -> << <<"lock", "bar">>, <<"unlock", "bar">> >>
      [] op = "close" -> AvanceBar_close_steps
      [] op = "drop" -> State_close_steps \o << <<"free", "">> >>

BarOps == {"update", "set_width", "set_interval", "close"}

(* The lock an instruction names, for the thread that executes it.         *)
LockOf(th, name) ==
    CASE name = "bar" -> BarMutex(th.bar)
      [] name = "src" -> BarMutex(th.src)
      [] name = "registry" -> Registry
      [] name = "stderr" -> Stderr

Holds(th, l) == \E i \in DOMAIN th.holds : th.holds[i] = l

Holders(l) == {t \in DOMAIN threads : Holds(threads[t], l)}

(* The threads that borrow a handle of the bar.                            *)
Users(id) ==
    {t \in DOMAIN threads :
        threads[t].bar = Some(id) \/ threads[t].src = Some(id)}

(* Mutex::lock blocks while any thread holds the mutex, the caller         *)
(* included; the lock of stderr is reentrant.                              *)
Free(t, l) == IF l = Stderr THEN Holders(l) \subseteq {t} ELSE Holders(l) = {}

(* PoisonError: a thread panicked while it held the guard.                 *)
Poisoned(l) ==
    \/ l.lock = "state" /\ l.of # None /\ Unwrap(l.of) \in poisoned
    \/ l = Registry /\ \E e \in panics : e.at = "reposition"

(* A return leaves the function: the rest of its body is skipped.          *)
RECURSIVE Return(_, _)
Return(prog, f) ==
    IF prog = <<>> THEN <<>>
    ELSE IF Head(prog) = <<"end", f>> THEN Tail(prog)
    ELSE Return(Tail(prog), f)

(* The guards are dropped in the reverse order of their acquisition.       *)
Released(holds, l) ==
    LET last == CHOOSE i \in DOMAIN holds :
                    holds[i] = l /\ \A j \in DOMAIN holds : holds[j] = l => j <= i
    IN  [i \in 1 .. Len(holds) - 1 |->
            IF i < last THEN holds[i] ELSE holds[i + 1]]

idle_thread(op, bar, src) ==
    [op |-> op, prog |-> Program(op), bar |-> bar, src |-> src,
     holds |-> <<>>, found |-> FALSE]

LockFrame ==
    UNCHANGED <<call, isTty, termRows, NROWS, bars, screen, above, sum, log,
                retotal, draws, ttyRun, peak, capFirst, sinkOk, closing, iters,
                order>>

(* A thread calls an operation on a handle it can reach.                   *)
Call(t, op, id) ==
    /\ t \notin DOMAIN threads
    /\ id \in DOMAIN handles /\ handles[id] > 0
    /\ threads' = Put(threads, t, idle_thread(op, Some(id), None))
    /\ UNCHANGED <<NEXTID, positions, handles, poisoned, panics>>
    /\ LockFrame

(* AvanceBar::new and AvanceBar::with_config_of(pb)                        *)
CallNew(t) ==
    /\ t \notin DOMAIN threads
    /\ threads' = Put(threads, t, idle_thread("new", None, None))
    /\ UNCHANGED <<NEXTID, positions, handles, poisoned, panics>>
    /\ LockFrame

CallWithConfigOf(t, pb) ==
    /\ t \notin DOMAIN threads
    /\ pb \in DOMAIN handles /\ handles[pb] > 0
    /\ threads' = Put(threads, t, idle_thread("with_config_of", None, Some(pb)))
    /\ UNCHANGED <<NEXTID, positions, handles, poisoned, panics>>
    /\ LockFrame

(* The drop of the only handle of a bar, which no thread borrows: the Arc  *)
(* drops the State (impl Drop for State).                                  *)
CallDrop(t, id) ==
    /\ t \notin DOMAIN threads
    /\ id \in DOMAIN handles /\ handles[id] = 1 /\ Users(id) = {}
    /\ handles' = [handles EXCEPT ![id] = 0]
    /\ threads' = Put(threads, t, idle_thread("drop", Some(id), None))
    /\ UNCHANGED <<NEXTID, positions, poisoned, panics>>
    /\ LockFrame

(* A panic unwinds the thread: its guards are dropped, and a Mutex whose   *)
(* guard is dropped by the unwind is poisoned.                             *)
Unwind(t, e) ==
    /\ panics' = panics \cup {e}
    /\ poisoned' = poisoned \cup
           {id \in DOMAIN handles : Holds(threads[t], BarMutex(Some(id)))}
    /\ threads' = Del(threads, t)
    /\ UNCHANGED <<NEXTID, positions, handles>>

(* The thread goes on with the rest of its program, and is done at its end. *)
Goes(t, th) == threads' = IF th.prog = <<>> THEN Del(threads, t)
                          ELSE [threads EXCEPT ![t] = th]

(* One instruction of a thread.                                            *)
Step(t) ==
    /\ t \in DOMAIN threads
    /\ LET th == threads[t]
           kind == Head(th.prog)[1]
           arg == Head(th.prog)[2]
           rest == [th EXCEPT !.prog = Tail(@)]
           id == th.bar
           same == UNCHANGED <<NEXTID, positions, handles, poisoned, panics>>
       IN  CASE kind = "lock" ->
                  LET l == LockOf(th, arg)
                  IN  /\ Free(t, l)
                      /\ IF Poisoned(l)
                         THEN Unwind(t, IF l = Registry THEN RegistryPanic
                                        ELSE LockPanic(Unwrap(l.of)))
                         ELSE /\ Goes(t, [rest EXCEPT !.holds = Append(@, l)])
                              /\ same
             [] kind = "unlock" ->
                  /\ Goes(t, [rest EXCEPT
                                !.holds = Released(@, LockOf(th, arg))])
                  /\ same
             [] kind = "tty" ->
                  /\ Goes(t, IF isTty THEN rest
                             ELSE [th EXCEPT !.prog = Return(@, arg)])
                  /\ same
             [] kind = "get" ->
                  /\ Goes(t, [rest EXCEPT
                                !.found = try_get_pos(positions, Unwrap(id)) # None])
                  /\ same
             [] kind = "return" ->
                  /\ Goes(t, IF th.found THEN rest
                             ELSE [th EXCEPT !.prog = Return(@, arg)])
                  /\ same
             [] kind = "unwrap" ->
                  IF th.found THEN Goes(t, rest) /\ same
                  ELSE Unwind(t, PosPanic(id))
             [] kind = "alloc" ->
                  /\ positions' = next_free_pos(positions, NEXTID)
                  /\ NEXTID' = NEXTID + 1
                  /\ Goes(t, [rest EXCEPT !.bar = Some(NEXTID)])
                  /\ UNCHANGED <<handles, poisoned, panics>>
             [] kind = "remove" ->
                  IF Unwrap(id) \in DOMAIN positions
                  THEN /\ positions' = reposition(positions, Unwrap(id))
                       /\ Goes(t, rest)
                       /\ UNCHANGED <<NEXTID, handles, poisoned, panics>>
                  ELSE Unwind(t, RepositionPanic(id))
             [] kind = "give" ->
                  /\ handles' = Put(handles, Unwrap(id), 1)
                  /\ Goes(t, rest)
                  /\ UNCHANGED <<NEXTID, positions, poisoned, panics>>
             [] kind = "free" ->
                  /\ handles' = Del(handles, Unwrap(id))
                  /\ Goes(t, rest)
                  /\ UNCHANGED <<NEXTID, positions, poisoned, panics>>
             [] OTHER -> Goes(t, rest) /\ same
    /\ LockFrame

(* Two threads and up to two bars, on a terminal or not.                   *)
LockThreads == {1, 2}
LockIds == {0, 1}

NextLocks ==
    \/ \E t \in LockThreads : NEXTID \in LockIds /\ CallNew(t)
    \/ \E t \in LockThreads : \E pb \in DOMAIN handles :
           NEXTID \in LockIds /\ CallWithConfigOf(t, pb)
    \/ \E t \in LockThreads : \E id \in DOMAIN handles : \E op \in BarOps :
           Call(t, op, id)
    \/ \E t \in LockThreads : \E id \in DOMAIN handles : CallDrop(t, id)
    \/ \E t \in LockThreads : Step(t)

SpecLocks == Init /\ [][NextLocks]_vars

-----------------------------------------------------------------------------
(* C26: on every code path a thread acquires its locks in the order        *)
(* registry, then the mutex of a bar, then stderr: it never acquires the   *)
(* registry while it holds the mutex of a bar or the lock of stderr.       *)

Rank(l) == CASE l = Registry -> 0 [] l = Stderr -> 2 [] OTHER -> 1

C26_LockOrder ==
    \A t \in DOMAIN threads :
        LET holds == threads[t].holds
        IN  \A i, j \in DOMAIN holds :
                i < j => Rank(holds[i]) <= Rank(holds[j])

-----------------------------------------------------------------------------
(* C28: no interleaving of new, with_config_of, update, the setters, close *)
(* and the drop of a handle deadlocks: no set of threads waits in a cycle, *)
(* each for a lock held inside the set, and no thread waits for a mutex it *)
(* holds itself.                                                           *)

Wanted(t) == LockOf(threads[t], Head(threads[t].prog)[2])

Waiting(t) == Head(threads[t].prog)[1] = "lock" /\ ~Free(t, Wanted(t))

C28_NoCyclicWait ==
    \A S \in SUBSET DOMAIN threads :
        S # {} => \E t \in S : ~Waiting(t) \/ ~(Holders(Wanted(t)) \subseteq S)

(* The order every thread follows: at most one bar mutex, then stderr,     *)
(* then the registry, which is held alone by its critical section.         *)
CodeRank(l) == CASE l = Registry -> 2 [] l = Stderr -> 1 [] OTHER -> 0

C28_OneOrder ==
    \A t \in DOMAIN threads :
        LET holds == threads[t].holds
        IN  \A i, j \in DOMAIN holds :
                i < j => CodeRank(holds[i]) < CodeRank(holds[j])

C28_NoDeadlock == C28_NoCyclicWait /\ C28_OneOrder

(* A thread that draws holds the mutex of its bar and stderr and waits for *)
(* the registry, which a thread that closes another bar holds.             *)
C28_Witness ==
    \E t, u \in DOMAIN threads :
        /\ t # u
        /\ Waiting(t) /\ Wanted(t) = Registry
        /\ Holds(threads[t], Stderr)
        /\ Holds(threads[u], Registry)
        /\ threads[u].op = "close" /\ threads[u].bar # threads[t].bar

-----------------------------------------------------------------------------
(* C30: the row lookup of draw and of clear never fails: from the moment   *)
(* drawable() returned true until get_pos() has returned, the id of the    *)
(* bar is in the registry, so the unwrap of get_pos never panics.          *)

(* The thread is in a draw or a clear, past drawable() and before the      *)
(* unwrap of get_pos.                                                      *)
Looking(t) ==
    LET prog == threads[t].prog
    IN  \E i \in DOMAIN prog :
            /\ prog[i][1] = "unwrap"
            /\ \A j \in 1 .. i - 1 : prog[j][1] \notin {"tty", "return"}

C30_RowFound ==
    /\ \A e \in panics : e.at # "get_pos"
    /\ \A t \in DOMAIN threads :
           Looking(t) => Unwrap(threads[t].bar) \in DOMAIN positions

(* A thread is at the unwrap while another one waits to close the same bar. *)
C30_Witness ==
    \E t, u \in DOMAIN threads :
        /\ t # u
        /\ Head(threads[t].prog)[1] = "unwrap"
        /\ threads[u].op = "close" /\ threads[u].bar = threads[t].bar
        /\ Waiting(u)

-----------------------------------------------------------------------------
(* The cursor.  draw, clear and close queue terminal commands; the         *)
(* terminal executes them.  The cursor is counted from the anchor: row 0   *)
(* is the line the cursor was on before the commands, col is the number of *)
(* characters to the left of the cursor (ncols after a character was       *)
(* written in the last column: the next character wraps to a new line).    *)
(* The terminal is in its usual mode: a newline also returns to column 0.  *)

Cmd(c, n, text) == [cmd |-> c, n |-> n, text |-> text]

(* State::draw, the commands queued for a row                              *)
draw_commands(pos, msg, ncols) ==
    IF pos # 0
    THEN << Cmd("Print", 0, Repeat("\n", pos)), Cmd("Print", 0, msg),
            Cmd("MoveUp", pos, <<>>), Cmd("MoveToColumn", ncols, <<>>) >>
    ELSE << Cmd("MoveToColumn", 0, <<>>), Cmd("Print", 0, msg) >>

(* State::clear, the commands queued for a row                             *)
clear_commands(pos) ==
    IF pos # 0
    THEN << Cmd("Print", 0, Repeat("\n", pos)), Cmd("Clear", 0, <<>>),
            Cmd("MoveUp", pos, <<>>) >>
    ELSE << Cmd("Clear", 0, <<>>) >>

(* State::close: draw(Some(0)), the newline, and MoveToColumn unless the   *)
(* registry is empty.                                                      *)
close_commands(msg, ncols, finished) ==
    draw_commands(0, msg, ncols) \o << Cmd("Print", 0, <<"\n">>) >>
    \o (IF finished THEN <<>> ELSE << Cmd("MoveToColumn", ncols, <<>>) >>)

(* The terminal writes a text at the cursor.  A newline starts a line; a   *)
(* character written when the line is full wraps to the next line.  Off(i) *)
(* is the number of characters to the left of character i on its line, if  *)
(* the line had no end.                                                    *)
type_text(cur, text, ncols) ==
    LET nl == {i \in DOMAIN text : text[i] = "\n"}
        Seg(i) == IF \E k \in nl : k < i
                  THEN CHOOSE k \in nl : k < i /\ \A m \in nl : m < i => m <= k
                  ELSE 0
        Off(i) == i - 1 - Seg(i) + (IF Seg(i) = 0 THEN cur.col ELSE 0)
        wraps == {i \in DOMAIN text \ nl : Off(i) >= ncols /\ Off(i) % ncols = 0}
        n == Len(text)
    IN  IF n = 0 THEN cur
        ELSE [row |-> cur.row + Cardinality(nl) + Cardinality(wraps),
              col |-> IF n \in nl THEN 0 ELSE (Off(n) % ncols) + 1]

(* The terminal executes one command.                                      *)
execute(cur, c, ncols) ==
    CASE c.cmd = "Print" -> type_text(cur, c.text, ncols)
      [] c.cmd = "MoveUp" -> [cur EXCEPT !.row = @ - c.n]
      [] c.cmd = "MoveToColumn" -> [cur EXCEPT !.col = Min2(c.n, ncols - 1)]
      [] c.cmd = "Clear" -> cur

RECURSIVE execute_all(_, _, _)
execute_all(cur, cmds, ncols) ==
    IF cmds = <<>> THEN cur
    ELSE execute_all(execute(cur, Head(cmds), ncols), Tail(cmds), ncols)

(* One draw, clear or close of a bar that the registry has at row pos.     *)
Emit ==
    /\ call # <<>>
    /\ call.fn \in {"draw", "clear", "close"}
    /\ call.out = None
    /\ LET msg == draw_text(call.st, IF call.fn = "close" THEN 0 ELSE call.pos,
                            call.cols)
           cmds == CASE call.fn = "draw" ->
                           draw_commands(call.pos, msg, call.cols)
                     [] call.fn = "clear" -> clear_commands(call.pos)
                     [] call.fn = "close" ->
                           close_commands(msg, call.cols, call.finished)
       IN  call' = [call EXCEPT !.out =
                       Some([cmds |-> cmds,
                             cursor |-> execute_all([row |-> 0, col |-> 0],
                                                    cmds, call.cols)])]
    /\ UNCHANGED <<threads, isTty, termRows, NROWS, NEXTID, positions, bars,
                   handles, screen, above, sum, log, retotal, draws, ttyRun,
                   peak, capFirst, sinkOk, closing, poisoned, iters, order,
                   panics>>

(* Bars with and without a total and a description, on every row of the    *)
(* terminal, on terminals narrower and wider than the line.                *)
CursorStates ==
    [n : {0, 1}, total : {None, Some(0), Some(2)}, secs : {0}, desc : FmtTexts,
     postfix : {None}, width : {None}, style : {Preset("ASCII")}]

InitCursor ==
    /\ Idle(TermRowsSet)
    /\ isTty
    /\ call \in [fn : {"draw", "clear", "close"}, st : CursorStates,
                 pos : 0 .. 2, cols : FmtCols, finished : BOOLEAN,
                 out : {None}]

NextCursor == Emit

SpecCursor == InitCursor /\ [][NextCursor]_vars

-----------------------------------------------------------------------------
(* C27: a draw or a clear of a bar at row r moves the cursor down r lines, *)
(* writes or clears that line and moves the cursor up r lines: when it     *)
(* completes the cursor is on the anchor row it started from, and for      *)
(* r = 0 no vertical move is emitted.  A close, and only a close, leaves   *)
(* the cursor exactly one row below.                                       *)

Emitted == call # <<>> /\ call.fn \in {"draw", "clear", "close"} /\ call.out # None

Vertical(c) ==
    c.cmd = "MoveUp" \/ \E i \in DOMAIN c.text : c.text[i] = "\n"

C27_BackOnAnchor ==
    Emitted =>
        LET o == Unwrap(call.out)
            r == call.pos
        IN  /\ call.fn \in {"draw", "clear"} =>
                  /\ o.cursor.row = 0
                  /\ r = 0 => \A i \in DOMAIN o.cmds : ~Vertical(o.cmds[i])
                  /\ r # 0 =>
                        /\ o.cmds[1] = Cmd("Print", 0, Repeat("\n", r))
                        /\ o.cmds[3] = Cmd("MoveUp", r, <<>>)
            /\ call.fn = "close" => o.cursor.row = 1

(* The same, for the lines that fit the terminal.                          *)
C27_WhenTheLineFits ==
    Emitted /\ (call.fn = "clear" \/ Len(Unwrap(call.out).cmds[2].text) <= call.cols)
        => C27_BackOnAnchor

-----------------------------------------------------------------------------
(* C31: update only adds its argument to cached; cached is added to n and  *)
(* reset to 0 only when the interval has elapsed, the total is reached or  *)
(* the bar is closed.  Hence n + cached of a bar without a total is the    *)
(* sum of the arguments of its updates, and for a bar whose total was not  *)
(* changed after its first update n + cached is that sum as long as the    *)
(* sum is below the total, and n is never above the total.                 *)

C31_Sum ==
    \A id \in Counted :
        LET st == bars[id]
        IN  /\ st.total = None => st.n + st.cached = sum[id]
            /\ st.total # None /\ ~retotal[id] =>
                  /\ st.n <= Unwrap(st.total)
                  /\ sum[id] < Unwrap(st.total) => st.n + st.cached = sum[id]

C31_Step ==
    \A id \in Counted \cap DOMAIN bars' :
        LET a == bars[id]
            b == bars'[id]
            k == sum'[id] - sum[id]
            all == a.n + a.cached + k
        IN  \/ b.n = a.n /\ b.cached = a.cached + k
            \/ /\ b.cached = 0
               /\ b.n = IF a.total # None THEN Min2(Unwrap(a.total), all) ELSE all
               /\ \/ k > 0 /\ a.elapsed >= a.interval
                  \/ k > 0 /\ a.total # None /\ all >= Unwrap(a.total)
                  \/ k = 0 /\ Close(id)

-----------------------------------------------------------------------------
(* C32: closed is absorbing.  After close() on a TTY, while a handle of    *)
(* the bar is held, no update, setter or close on the bar writes on the    *)
(* terminal, puts the id back in the registry or changes the row of        *)
(* another bar; and no id is handed out twice: a new bar never gets the id *)
(* of a bar that exists, and no step puts a closed bar back.               *)

OnBar(id) ==
    \/ \E k \in Steps : Update(id, k)
    \/ \E t \in Totals : SetTotal(id, t)
    \/ SetPostfix(id, "p")
    \/ SetWidth(id, 1)
    \/ \E x \in Intervals \cup {0 - 1} : SetInterval(id, x)
    \/ Close(id)

C32_Step ==
    \A id \in DOMAIN bars :
        isTty /\ log[id].closed =>
            /\ id \notin DOMAIN positions'
            /\ \/ screen' = screen /\ above' = above /\ positions' = positions
               \/ ~OnBar(id)

C32_Ids ==
    \A id \in DOMAIN bars \cup DOMAIN positions : id < NEXTID

C32_IdStep ==
    /\ NEXTID' >= NEXTID
    /\ DOMAIN bars' \ DOMAIN bars \subseteq {NEXTID}
    /\ DOMAIN positions' \ DOMAIN positions \subseteq {NEXTID}

C32_Absorbing == []C32_Ids /\ [][C32_Step /\ C32_IdStep]_vars

(* A bar closed on a TTY, updated afterwards through a handle still held,  *)
(* while another bar is in the registry.                                   *)
C32_Witness ==
    \E id \in Counted :
        /\ isTty /\ log[id].closed
        /\ bars[id].total = None /\ bars[id].cached > 0
        /\ DOMAIN positions # {}

-----------------------------------------------------------------------------
(* The row of a new bar after many bars.  With no TTY close returns before *)
(* reposition, so that the registry keeps the row of every bar that was    *)
(* ever built (RowsAreKept, an invariant of the specifications above); on  *)
(* a TTY it holds the bars not yet closed, on the rows from 0 on           *)
(* (C1_Contiguous).  The registry is given by the number of bars built so  *)
(* far and the number of them that are not closed (the last ones built).   *)

RowsAreKept == ~isTty => positions = [i \in 0 .. NEXTID - 1 |-> i]

registry_after(tty, built, live) ==
    IF tty THEN [i \in built - live .. built - 1 |-> i - (built - live)]
    ELSE [i \in 0 .. built - 1 |-> i]

(* fn next_free_pos, the addition n + 1 on u16: a build with overflow      *)
(* checks panics where a build without them wraps to 0, the row that only  *)
(* an empty registry gives otherwise.                                      *)
row_overflows(pos, row) == DOMAIN pos # {} /\ row = 0

(* One call of next_free_pos.                                              *)
NextFreePos ==
    /\ call # <<>>
    /\ call.fn = "next_free_pos"
    /\ call.out = None
    /\ LET pos == registry_after(isTty, call.built, call.live)
           row == next_pos(pos)
       IN  call' = [call EXCEPT !.out =
                       Some([row |-> row,
                             overflow |-> row_overflows(pos, row)])]
    /\ UNCHANGED <<threads, isTty, termRows, NROWS, NEXTID, positions, bars,
                   handles, screen, above, sum, log, retotal, draws, ttyRun,
                   peak, capFirst, sinkOk, closing, poisoned, iters, order,
                   panics>>

(* Few and many bars built before, none to all of them still live.         *)
BuiltBefore == (0 .. 32) \cup {65535, 65536}

InitRows ==
    /\ Idle(TermRowsSet)
    /\ call \in [fn : {"next_free_pos"}, built : BuiltBefore,
                 live : {0, 1, 2, 65534}, out : {None}]
    /\ call.live <= call.built
    /\ call.built > 32 => call.live \in {0, 65534}

NextRows == NextFreePos

SpecRows == InitRows /\ [][NextRows]_vars

-----------------------------------------------------------------------------
(* C33: as long as fewer than 65536 bars are live at the same time, the    *)
(* new bar included, next_free_pos computes max(rows) + 1 (0 for an empty  *)
(* registry) without exceeding 65535, on a TTY and with no TTY, however    *)
(* many bars were built and closed before.                                 *)

Allocated == call # <<>> /\ call.fn = "next_free_pos" /\ call.out # None

C33_NoRowOverflow ==
    Allocated /\ call.live + 1 < 65536 =>
        LET o == Unwrap(call.out)
        IN  /\ ~o.overflow
            /\ o.row <= 65535
            /\ o.row = IF isTty THEN call.live ELSE call.built

(* The same on a TTY, where close gives the row back.                      *)
C33_OnTty == isTty => C33_NoRowOverflow

-----------------------------------------------------------------------------
(* The tqrs crate: an iterator wrapper over a shared map of bars.  Its     *)
(* state is the record tq below: ID and BARS are the statics, poison the   *)
(* poison flag of the mutex of BARS, pbs the ProgressBar values not yet    *)
(* dropped, final the last line close has printed for a bar (with, as      *)
(* history, the number of elements the wrapper had yielded by then),       *)
(* raised the panics so far and aborted a panic during an unwinding.       *)
(* Every ProgressBar lives on a thread of its own, as in the example of    *)
(* the documentation of the crate.                                         *)

MaxPb == 2
PbLens == 0 .. 2

Info(total) == [nitem |-> 0, total |-> total]

ProgressBar(id, len) ==
    [id |-> id, first |-> TRUE, step |-> 0, left |-> len, yielded |-> 0]

TqPanic(fn, id, s) == [fn |-> fn, id |-> id, closed |-> id \in DOMAIN s.final]

(* fn refresh: bars().lock().unwrap() panics on a poisoned mutex; the map  *)
(* is only read.                                                           *)
tqrs_refresh(s, fn, id) ==
    IF s.poison THEN [s EXCEPT !.raised = @ \cup {TqPanic(fn, id, s)}]
    ELSE s

(* ProgressBar::close.  With the lock: remove(&self.id).unwrap(), which    *)
(* panics under the guard when the id is not in the map (the mutex is      *)
(* poisoned), then the steps are added and the last line is printed.  A    *)
(* poisoned lock is passed over.  Then refresh.                            *)
ProgressBar_close(s, id, fn) ==
    IF ~s.poison
    THEN IF id \notin DOMAIN s.BARS
         THEN [s EXCEPT !.poison = TRUE,
                        !.raised = @ \cup {TqPanic(fn, id, s)}]
         ELSE tqrs_refresh(
                  [s EXCEPT !.BARS = Del(@, id),
                            !.final = Put(@, id,
                                [nitem |-> s.BARS[id].nitem + s.pbs[id].step,
                                 yielded |-> s.pbs[id].yielded])],
                  fn, id)
    ELSE tqrs_refresh(s, fn, id)

(* Iterator::next.  When the refresh time has come (always on the first    *)
(* call, next being UNIX_EPOCH): with the lock, get_mut(&self.id).unwrap() *)
(* and the steps are moved into nitem; then refresh.  Then the wrapped     *)
(* iterator is advanced.                                                   *)
ProgressBar_next(s, id, due) ==
    LET pb == s.pbs[id]
        flushed ==
            IF ~due THEN s
            ELSE IF s.poison THEN tqrs_refresh(s, "next", id)
            ELSE IF id \notin DOMAIN s.BARS
                 THEN [s EXCEPT !.poison = TRUE,
                                !.raised = @ \cup {TqPanic("next", id, s)}]
            ELSE [s EXCEPT !.BARS[id].nitem = @ + pb.step,
                           !.pbs[id].step = 0,
                           !.pbs[id].first = FALSE]
    IN  IF flushed.raised # s.raised \/ pb.left = 0 THEN flushed
        ELSE [flushed EXCEPT !.pbs[id].step = @ + 1,
                             !.pbs[id].left = @ - 1,
                             !.pbs[id].yielded = @ + 1]

(* A panic of close or next unwinds the thread that owns the ProgressBar,  *)
(* which drops it: Drop calls close, the mutex is poisoned by then, and    *)
(* refresh panics during the unwinding, which aborts the process.          *)
TqUnwind(s, t, id) ==
    IF t.raised # s.raised
    THEN [t EXCEPT !.pbs = Del(@, id), !.aborted = TRUE]
    ELSE t

TqKeep ==
    UNCHANGED <<threads, isTty, termRows, NROWS, NEXTID, positions, bars,
                handles, screen, above, sum, log, retotal, draws, ttyRun,
                peak, capFirst, sinkOk, closing, poisoned, iters, order,
                panics>>

TqRuns == call # <<>> /\ call.fn = "tqrs" /\ ~call.aborted

(* fn tqrs: the id is taken, then bars().lock().unwrap(), the insertion    *)
(* and a refresh.                                                          *)
TqrsNew(len) ==
    /\ TqRuns
    /\ call.ID < MaxPb
    /\ LET id == call.ID
           s == [call EXCEPT !.ID = @ + 1]
       IN  call' = IF s.poison THEN tqrs_refresh(s, "tqrs", id)
                   ELSE [s EXCEPT !.BARS = Put(@, id, Info(Some(len))),
                                  !.pbs = Put(@, id, ProgressBar(id, len))]
    /\ TqKeep

PbNext(id, due) ==
    /\ TqRuns
    /\ id \in DOMAIN call.pbs
    /\ call.pbs[id].first => due
    /\ call' = TqUnwind(call, ProgressBar_next(call, id, due), id)
    /\ TqKeep

PbClose(id) ==
    /\ TqRuns
    /\ id \in DOMAIN call.pbs
    /\ call' = TqUnwind(call, ProgressBar_close(call, id, "close"), id)
    /\ TqKeep

(* impl Drop for ProgressBar: drop(self.close()).                          *)
PbDrop(id) ==
    /\ TqRuns
    /\ id \in DOMAIN call.pbs
    /\ call' = [ProgressBar_close(call, id, "drop") EXCEPT !.pbs = Del(@, id)]
    /\ TqKeep

InitTqrs ==
    /\ Idle(TermRowsSet)
    /\ call = [fn |-> "tqrs", ID |-> 0, BARS |-> <<>>, poison |-> FALSE,
               pbs |-> <<>>, final |-> <<>>, raised |-> {},
               aborted |-> FALSE]

PbIds == 0 .. MaxPb - 1

NextTqrs ==
    \/ \E len \in PbLens : TqrsNew(len)
    \/ \E id \in PbIds, due \in BOOLEAN : PbNext(id, due)
    \/ \E id \in PbIds : PbClose(id)
    \/ \E id \in PbIds : PbDrop(id)

SpecTqrs == InitTqrs /\ [][NextTqrs]_vars

-----------------------------------------------------------------------------
(* C34: closing a ProgressBar of tqrs is safe to repeat: a close, a drop   *)
(* or a next on a bar that close has closed before does not panic and      *)
(* leaves the shared map of bars as it is; and the item count close        *)
(* records for a bar is the number of elements the wrapper has yielded.    *)

PbClosed(id) == id \in DOMAIN call.final

C34_CountAtClose ==
    \A id \in DOMAIN call.final :
        call.final[id].nitem = call.final[id].yielded

C34_Repeat ==
    \A id \in DOMAIN call.pbs :
        /\ PbClosed(id)
        /\ PbClose(id) \/ PbDrop(id) \/ (\E due \in BOOLEAN : PbNext(id, due))
        => call'.raised = call.raised /\ call'.BARS = call.BARS

====
